---------------------------- MODULE Spec2Model ----------------------------
(***************************************************************************)
(* Model of the disk-staged bucket I/O engine (DiskBufferQueue): the       *)
(* command ring between a producer and the dispatcher thread, the          *)
(* dispatcher loop CommandMain / ExecuteCommand, fences, and the           *)
(* block-aligned file writes WriteToFile / CmdWriteBuckets.                *)
(*                                                                         *)
(* Two state machines share the module's variables:                        *)
(*   Spec / FairSpec : producer, ring, dispatcher, fences (queue part)     *)
(*   SpecIO          : one WriteFile or WriteBuckets command executed      *)
(*                     call by call against the file streams (I/O part)    *)
(***************************************************************************)
EXTENDS Integers, Sequences, FiniteSets, TLC

(***************************************************************************)
(* Bounds of the model.                                                    *)
(***************************************************************************)
\* Capacity of the command ring _commands (fixed in the code, scaled down).
RingCapacity == 2
\* Number of commands the producer enqueues in one behaviour.
MaxCmds == 3
\* Largest value a waiting thread passes to Fence::Wait( value ).
MaxWaitValue == 1
\* _blockSize: the block size the device reports (the code requires >= 2).
BlockSize == 2
\* Largest size of a WriteFile command and of one bucket of WriteBuckets.
MaxSize == 4
\* Capacity of the work heap, in bytes.
HeapSize == 3
\* Number of Allocate calls in one behaviour.
MaxAllocs == 4
\* Largest size passed to Allocate.
MaxAllocSize == 2
\* Largest plotMemoSize passed to OpenPlotFile.
MaxMemoSize == 3
\* Number of OpenPlotFile calls on one queue.
MaxPlots == 2
\* Number of DeleteFile / DeleteBucket calls on one queue.
MaxFsCmds == 2
\* Number of times a queue is constructed again on the same work directory.
MaxRestarts == 1
\* Number of work-heap buffers named by commands.
MaxBuffers == 2
\* Number of Set calls on one BitViewT.
MaxSets == 2

(***************************************************************************)
(* Program constants, scaled down.                                         *)
(***************************************************************************)
\* const int CMD_BUF_SIZE = 64 in CommandMain.
CMD_BUF_SIZE == 2
\* fileSet.files.length of a bucketed file set (BB_DP_BUCKET_COUNT).
BucketCount == 4
\* sizeof( kPOSMagic ) - 1
MagicLen == 19
\* The plot id: 32 bytes.
PlotIdLen == 32
\* sizeof( kFormatDescription ) - 1
FormatLen == 4
\* The table pointers: 80 bytes.
TablePointersLen == 80
\* _K
K == 32

\* Bits of a field (uint64) of the BitReader.
WordBits == 64

\* Bits of the value argument of SignalFence (uint32).
UInt32Bits == 32
\* Bits of cmd->fence.value (int64).
FenceValueBits == 64

Min(a, b) == IF a < b THEN a ELSE b

VARIABLES
    \* ---- queue part ----
    issued,             \* every command enqueued so far, by enqueue index
    ring,               \* _commands: enqueue indices of the occupied slots, oldest first
    committedCount,     \* _commands: how many of the occupied slots are published
    publishedCount,     \* how many commands were ever published by Commit
    ppc,                \* producer: where it is in a public queue call
    ptype,              \* producer: command type of a call blocked on a full ring
    waitLog,            \* producer: "Waited ... for a Command" lines logged so far
    cmdReadySignal,     \* _cmdReadySignal
    cmdConsumedSignal,  \* _cmdConsumedSignal
    dpc,                \* dispatcher: position in CommandMain
    commands,           \* CommandMain: local array commands[], as enqueue indices
    di,                 \* CommandMain: loop index i (1-based)
    running,            \* enqueue index of the command inside ExecuteCommand, or 0
    started,            \* enqueue indices in the order ExecuteCommand was entered
    executed,           \* enqueue indices in the order ExecuteCommand returned
    fenceValue,         \* fence f: the published value
    fenceSignaled,      \* fence g: the no-value "signaled" mark
    file,               \* stream (F7, 0): payloads written, in file order
    wpc,                \* waiting thread: "waiting" in f.Wait( wv ) or "returned"
    wv,                 \* waiting thread: the value it waits for
    \* ---- I/O part ----
    useDirectIO,        \* _useDirectIO
    ioCmd,              \* the command handed to ExecuteCommand
    streams,            \* the file set's streams: bucket -> [data, pos]
    blockBuffer,        \* _blockBuffer: the scratch block
    iopc,               \* position inside the command's execution
    bucket,             \* CmdWriteBuckets: loop index i
    bucketBuffer,       \* CmdWriteBuckets: buffer, as an offset into the input
    wstream,            \* WriteToFile: index of the stream written
    wsize,              \* WriteToFile: size / sizeToWrite still to write
    wbuffer,            \* WriteToFile: buffer, as an offset into the input
    wremainder,         \* WriteToFile: remainder
    lastRet,            \* return value of the latest FileStream::Write
    shortWrites,        \* FileStream::Write calls that returned less than asked
    \* ---- read-back part ----
    script,             \* the commands the dispatcher executes, in order
    sidx,               \* index in script of the command being executed
    dst,                \* ReadFile destination buffers: bucket -> bytes stored
    rstream,            \* ReadFromFile: index of the stream read
    rsize,              \* ReadFromFile: size / sizeToRead still to read
    rbuffer,            \* ReadFromFile: buffer, as an offset into the destination
    lastRead,           \* return value of the latest FileStream::Read
    seekFailed,         \* a FileStream::Seek returned false
    \* ---- work heap part ----
    heapFree,           \* _workHeap: the free bytes
    heapPending,        \* _workHeap: buffers released by the dispatcher, not yet reconciled
    owned,              \* buffers the producer got from Allocate and still holds
    releaseCmds,        \* ReleaseBuffer commands published and not yet executed
    allocCount,         \* Allocate calls that returned so far
    \* ---- file-set part ----
    fsPc,               \* caller thread: "ctor", "open" (in InitFileSet), "plotCheck", "idle"
    ctorIdx,            \* constructor: index of its next InitFileSet call
    initId,             \* InitFileSet: fileId
    initIdx,            \* InitFileSet: loop index i
    initCaller,         \* InitFileSet: called by "ctor" or by "OpenPlotFile"
    fileSets,           \* _files: file id -> streams [open, blockSize]
    fsys,               \* the paths that exist in the work directory
    fsBlockSize,        \* _blockSize (0: not recorded yet)
    fsBlockBuffer,      \* _blockBuffer is allocated
    fsLog,              \* lines logged with Log::Line / Log::Error
    fsFatal,            \* "none", or why Fatal was called
    didOpen,            \* OpenPlotFile: didOpen ("none" before InitFileSet returned)
    dispRunning,        \* the dispatcher thread was started
    fsCmds,             \* commands published and not yet executed
    fsCallCount,           \* DeleteFile / DeleteBucket calls so far
    mutations,          \* stream mutations since the dispatcher runs: who did what
    deleted,            \* file id -> outcome of the DeleteBucket executed on it
    reopened,           \* file ids initialized again after a DeleteBucket removed all files
    restarts,           \* queues constructed after the first one
    plotCalls,          \* OpenPlotFile calls on this queue
    plotMemoSize,       \* OpenPlotFile: plotMemoSize
    plotHeaderSize,     \* _plotHeaderSize
    plotTablesPointers, \* _plotTablesPointers
    plotHeaderBuffer,   \* _plotHeaderbuffer: its bytes
    plotHeaderCap,      \* _plotHeaderbuffer: allocated size (0: not allocated)
    headersBuilt,       \* headers encoded by OpenPlotFile on this queue
    plotWritesEnqueued, \* WriteFile{PLOT} commands enqueued on this queue
    plotWritesDone,     \* WriteFile{PLOT} commands executed on this queue
    plotFile,           \* the plot file's content
    \* ---- BitReader ----
    brPc,               \* "none", "buffer" (not constructed yet) or "ready"
    brFields,           \* _fields: the buffer, as the uint64 values the host holds
    brSizeBits,         \* _sizeBits
    brPosition,         \* _position
    brWritten,          \* the field values written big-endian to the buffer
    brBitCount,         \* ReadBits64: bitCount of the latest call (0: none yet)
    brValue,            \* ReadBits64: value returned by the latest call
    brFrom,             \* _position before the latest call
    brTouched,          \* indices of the fields the latest call read
    \* ---- path buffer part ----
    ptBuffer,           \* _filePathBuffer: the path it holds after the work directory
    ptProd,             \* producer in OpenPlotFile: "idle" or "formatted" (before Open)
    ptDisp,             \* dispatcher: "idle", "loop" (CmdDeleteBucket) or "formatted" (before remove)
    ptCmd,              \* the delete command the dispatcher executes
    ptIdx,              \* the bucket whose path the dispatcher formatted / loop index i
    ptCmds,             \* delete commands published and not yet executed
    ptStreams,          \* _files: file id -> streams [open, path opened with]
    ptFsys,             \* the paths that exist in the work directory
    ptOpens,            \* Open calls of OpenPlotFile: path formatted, path passed
    ptRemoves,          \* remove calls: path formatted, path passed, path of the stream
    ptCalls,            \* DeleteFile / DeleteBucket calls so far
    ptPlots,            \* OpenPlotFile calls so far
    ptFatal,            \* Fatal was called
    \* ---- SignalFence values ----
    fvCalls,            \* SignalFence calls so far: with a value or not, the value
    fvCmds,             \* SignalFence commands published and not yet executed
    fvSignals,          \* the calls the dispatcher made on the fence, in order
    \* ---- buffer commands ----
    rbCmds,             \* published commands that name a buffer, in enqueue order
    rbRunning,          \* index of the command inside ExecuteCommand, or 0
    rbDone,             \* number of commands ExecuteCommand returned from
    rbReleases,         \* _workHeap.Release calls: buffer, command running, commands finished
    \* ---- sizes array of WriteBuckets ----
    szArray,            \* the producer's sizes array: bucket -> size
    szCmd,              \* "none", or "sizes": a WriteBuckets command points to szArray
    szAtEnqueue,        \* the contents of szArray when WriteBuckets was called
    szBucket,           \* CmdWriteBuckets: loop index i
    szUsed,             \* CmdWriteBuckets: the bufferSize values read so far
    \* ---- BitViewT ----
    bvEntrySize,        \* _EntrySize of the view, 0 before it is built
    bvFields,           \* _fields: the words of the buffer, as sets of bit positions
    bvBefore,           \* _fields before the latest Set
    bvIndex,            \* the latest Set: index
    bvValue,            \* the latest Set: value
    bvSets              \* number of Set calls so far

ringVars  == << issued, ring, committedCount, publishedCount >>
prodVars  == << ppc, ptype, waitLog >>
dispVars  == << dpc, commands, di, running, started, executed >>
fenceVars == << fenceValue, fenceSignaled, wpc, wv >>
queueVars == << ringVars, prodVars, cmdReadySignal, cmdConsumedSignal, dispVars,
                fenceVars, file >>
writeVars == << wstream, wsize, wbuffer, wremainder >>
ioVars    == << useDirectIO, ioCmd, streams, blockBuffer, iopc, bucket,
                bucketBuffer, writeVars, lastRet, shortWrites >>

rwVars    == << script, sidx, dst, rstream, rsize, rbuffer, lastRead, seekFailed >>
heapVars  == << heapFree, heapPending, owned, releaseCmds, allocCount >>
plotVars  == << plotCalls, plotMemoSize, plotHeaderSize, plotTablesPointers,
                plotHeaderBuffer, plotHeaderCap, headersBuilt, plotWritesEnqueued,
                plotWritesDone, plotFile >>
fsVars    == << fsPc, ctorIdx, initId, initIdx, initCaller, fileSets, fsys,
                fsBlockSize, fsBlockBuffer, fsLog, fsFatal, didOpen, dispRunning,
                fsCmds, fsCallCount, mutations, deleted, reopened, restarts,
                plotVars >>
bitVars   == << brPc, brFields, brSizeBits, brPosition, brWritten, brBitCount,
                brValue, brFrom, brTouched >>
pathVars  == << ptBuffer, ptProd, ptDisp, ptCmd, ptIdx, ptCmds, ptStreams, ptFsys,
                ptOpens, ptRemoves, ptCalls, ptPlots, ptFatal >>
fvVars    == << fvCalls, fvCmds, fvSignals >>
rbVars    == << rbCmds, rbRunning, rbDone, rbReleases >>
szVars    == << szArray, szCmd, szAtEnqueue, szBucket, szUsed >>
bvVars    == << bvEntrySize, bvFields, bvBefore, bvIndex, bvValue, bvSets >>
restVars  == << pathVars, fvVars, rbVars, szVars, bvVars >>
extVars   == << rwVars, heapVars, fsVars, bitVars, restVars >>

vars == << queueVars, ioVars, extVars >>

(***************************************************************************)
(* Commands.  GetCommandObject zeroes the slot and sets its type; the      *)
(* public call then writes the fields.                                     *)
(***************************************************************************)
CommandTypes == { "WriteFile", "SignalFence", "WaitForFence" }

\* ZeroMem( cmd ); cmd->type = type;
ZeroedCommand(type) == [ type |-> type, filled |-> FALSE, value |-> 0 ]

\* Number of SignalFence commands enqueued so far.
SignalCount == Cardinality({ k \in 1..Len(issued) : issued[k].type = "SignalFence" })

\* The fields the public call writes after GetCommandObject returned:
\*   WriteFile   : buffer/size/fileId/bucket (the payload is named by the index)
\*   SignalFence : fence.value = (int64)value, values published in rising order
\*   WaitForFence: fence.value = -1
FilledCommand(k) ==
    [ type   |-> issued[k].type,
      filled |-> TRUE,
      value  |-> CASE issued[k].type = "WriteFile"    -> k
                   [] issued[k].type = "SignalFence"  -> SignalCount
                   [] issued[k].type = "WaitForFence" -> -1 ]

\* Fatal() ends the process: no thread takes another step.
Alive == dpc # "fatal"

(***************************************************************************)
(* The command ring (SPCQueue): Write, Commit, Dequeue.                    *)
(***************************************************************************)
\* Write: a free slot exists.
RingCanWrite == Len(ring) < RingCapacity

\* Commit: every reserved slot becomes published.
RingCommit == Len(ring)

\* Dequeue( commands, max ): the number of commands popped.
RingDequeueCount(max) == Min(committedCount, max)

(***************************************************************************)
(* Producer.                                                               *)
(***************************************************************************)
\* The mutant publishes the slot at once, before its fields are written.
GetCommandObjectPublishing(type) ==
    /\ Alive
    /\ \/ ppc = "idle" /\ Len(issued) < MaxCmds
       \/ ppc = "retry" /\ type = ptype
    /\ IF RingCanWrite
         THEN /\ issued' = Append(issued, ZeroedCommand(type))
              /\ ring' = Append(ring, Len(issued) + 1)
              /\ committedCount' = Len(ring) + 1
              /\ publishedCount' = Len(issued) + 1
              /\ ppc' = "fill"
              /\ ptype' = "none"
         ELSE /\ ppc' = "wait"
              /\ ptype' = type
              /\ UNCHANGED ringVars
    /\ UNCHANGED << waitLog, cmdReadySignal, cmdConsumedSignal, dispVars,
                    fenceVars, file, ioVars, extVars >>

\* GetCommandObject: one pass of  while( !_commands.Write( cmd ) ).  On
\* success the slot is reserved (not published), zeroed and typed; on failure
\* the producer goes to _cmdConsumedSignal.Wait().
GetCommandObject(type) ==
    /\ Alive
    /\ \/ ppc = "idle" /\ Len(issued) < MaxCmds
       \/ ppc = "retry" /\ type = ptype
    /\ IF RingCanWrite
         THEN /\ issued' = Append(issued, ZeroedCommand(type))
              /\ ring' = Append(ring, Len(issued) + 1)
              /\ ppc' = "fill"
              /\ ptype' = "none"
         ELSE /\ ppc' = "wait"
              /\ ptype' = type
              /\ UNCHANGED << issued, ring >>
    /\ UNCHANGED << committedCount, publishedCount, waitLog, cmdReadySignal,
                    cmdConsumedSignal, dispVars, fenceVars, file, ioVars, extVars >>

\* _cmdConsumedSignal.Wait() inside GetCommandObject returns, the wait is
\* logged and the loop retries.
WaitCmdConsumed ==
    /\ Alive
    /\ ppc = "wait"
    /\ cmdConsumedSignal
    /\ cmdConsumedSignal' = FALSE
    /\ waitLog' = waitLog + 1
    /\ ppc' = "retry"
    /\ UNCHANGED << ringVars, ptype, cmdReadySignal, dispVars, fenceVars, file,
                    ioVars, extVars >>

\* WriteFile / SignalFence / WaitForFence: the field writes after
\* GetCommandObject returned, then the call returns.
FillCommand ==
    /\ Alive
    /\ ppc = "fill"
    /\ issued' = [ issued EXCEPT ![Len(issued)] = FilledCommand(Len(issued)) ]
    /\ ppc' = "idle"
    /\ UNCHANGED << ring, committedCount, publishedCount, ptype, waitLog,
                    cmdReadySignal, cmdConsumedSignal, dispVars, fenceVars, file,
                    ioVars, extVars >>

\* CommitCommands, first statement: _commands.Commit().
CommitCommands ==
    /\ Alive
    /\ ppc = "idle"
    /\ committedCount' = RingCommit
    /\ publishedCount' = Len(issued)
    /\ ppc' = "signal"
    /\ UNCHANGED << issued, ring, ptype, waitLog, cmdReadySignal,
                    cmdConsumedSignal, dispVars, fenceVars, file, ioVars, extVars >>

\* The mutant returns from CommitCommands without raising the signal.
SignalCmdReadyOmitted ==
    /\ Alive
    /\ ppc = "signal"
    /\ ppc' = "idle"
    /\ UNCHANGED << ringVars, ptype, waitLog, cmdReadySignal, cmdConsumedSignal,
                    dispVars, fenceVars, file, ioVars, extVars >>

\* CommitCommands, second statement: _cmdReadySignal.Signal().
SignalCmdReady ==
    /\ Alive
    /\ ppc = "signal"
    /\ cmdReadySignal' = TRUE
    /\ ppc' = "idle"
    /\ UNCHANGED << ringVars, ptype, waitLog, cmdConsumedSignal, dispVars,
                    fenceVars, file, ioVars, extVars >>

(***************************************************************************)
(* Dispatcher: CommandMain and ExecuteCommand.                             *)
(***************************************************************************)
\* _cmdReadySignal.Wait() at the top of the for( ;; ) loop.
WaitCmdReady ==
    /\ dpc = "waitReady"
    /\ cmdReadySignal
    /\ cmdReadySignal' = FALSE
    /\ dpc' = "dequeue"
    /\ UNCHANGED << ringVars, prodVars, cmdConsumedSignal, commands, di, running,
                    started, executed, fenceVars, file, ioVars, extVars >>

\* cmdCount = _commands.Dequeue( commands, CMD_BUF_SIZE ): 0 leaves the inner
\* while loop, otherwise the batch is copied out of the ring.
DequeueCommands ==
    /\ dpc = "dequeue"
    /\ LET cmdCount == RingDequeueCount(CMD_BUF_SIZE) IN
         IF cmdCount = 0
           THEN /\ dpc' = "waitReady"
                /\ UNCHANGED << ring, committedCount, commands, di >>
           ELSE /\ commands' = SubSeq(ring, 1, cmdCount)
                /\ ring' = SubSeq(ring, cmdCount + 1, Len(ring))
                /\ committedCount' = committedCount - cmdCount
                /\ di' = 1
                /\ dpc' = "signalConsumed"
    /\ UNCHANGED << issued, publishedCount, prodVars, cmdReadySignal,
                    cmdConsumedSignal, running, started, executed, fenceVars,
                    file, ioVars, extVars >>

\* The mutant goes on to the batch without raising the signal.
SignalCmdConsumedOmitted ==
    /\ dpc = "signalConsumed"
    /\ dpc' = "exec"
    /\ UNCHANGED << ringVars, prodVars, cmdReadySignal, cmdConsumedSignal,
                    commands, di, running, started, executed, fenceVars, file,
                    ioVars, extVars >>

\* _cmdConsumedSignal.Signal() after a non-empty Dequeue.
SignalCmdConsumed ==
    /\ dpc = "signalConsumed"
    /\ cmdConsumedSignal' = TRUE
    /\ dpc' = "exec"
    /\ UNCHANGED << ringVars, prodVars, cmdReadySignal, commands, di, running,
                    started, executed, fenceVars, file, ioVars, extVars >>

\* The mutant walks the batch from its last command to its first.
NextCommandIndexReversed == Len(commands) + 1 - di

\* for( int i = 0; i < cmdCount; i++ ) ExecuteCommand( commands[i] ): the
\* position in commands[] of the command the loop hands to ExecuteCommand.
NextCommandIndex == di

\* ExecuteCommand( commands[i] ) is entered.
ExecuteBegin ==
    /\ dpc = "exec"
    /\ running' = commands[NextCommandIndex]
    /\ started' = Append(started, commands[NextCommandIndex])
    /\ dpc' = "executing"
    /\ UNCHANGED << ringVars, prodVars, cmdReadySignal, cmdConsumedSignal,
                    commands, di, executed, fenceVars, file, ioVars, extVars >>

\* ExecuteCommand returned: i++, and the for loop either goes on or falls
\* back to the while loop's Dequeue (the batch is dead then).
ExecuteReturn ==
    /\ executed' = Append(executed, running)
    /\ running' = 0
    /\ IF di + 1 > Len(commands)
         THEN /\ dpc' = "dequeue"
              /\ commands' = << >>
              /\ di' = 1
         ELSE /\ dpc' = "exec"
              /\ di' = di + 1
              /\ UNCHANGED commands

\* The mutant returns from the command without having written the buffer
\* (the write is left to another thread).
ExecuteWriteFileDeferred ==
    /\ dpc = "executing"
    /\ issued[running].type = "WriteFile"
    /\ ExecuteReturn
    /\ UNCHANGED << ringVars, prodVars, cmdReadySignal, cmdConsumedSignal,
                    started, fenceVars, file, ioVars, extVars >>

\* case Command::WriteFile: CndWriteFile -> WriteToFile.  Either the stream
\* takes the whole buffer, or a write returns < 1 and Fatal() ends the process.
ExecuteWriteFile ==
    /\ dpc = "executing"
    /\ issued[running].type = "WriteFile"
    /\ \/ /\ file' = Append(file, issued[running].value)
          /\ ExecuteReturn
       \/ /\ dpc' = "fatal"
          /\ UNCHANGED << file, executed, running, di, commands >>
    /\ UNCHANGED << ringVars, prodVars, cmdReadySignal, cmdConsumedSignal,
                    started, fenceVars, ioVars, extVars >>

\* The mutant always takes the no-value branch.
ExecuteSignalFenceNoValue ==
    /\ dpc = "executing"
    /\ issued[running].type = "SignalFence"
    /\ ExecuteReturn
    /\ UNCHANGED << ringVars, prodVars, cmdReadySignal, cmdConsumedSignal,
                    started, fenceVars, file, ioVars, extVars >>

\* case Command::SignalFence: value < 0 -> Signal(), else Signal( (uint32)value ).
ExecuteSignalFence ==
    /\ dpc = "executing"
    /\ issued[running].type = "SignalFence"
    /\ fenceValue' = IF issued[running].value < 0 THEN fenceValue
                     ELSE issued[running].value
    /\ ExecuteReturn
    /\ UNCHANGED << ringVars, prodVars, cmdReadySignal, cmdConsumedSignal,
                    started, fenceSignaled, wpc, wv, file, ioVars, extVars >>

\* The mutant returns from the command without waiting for the fence.
ExecuteWaitForFenceNoWait ==
    /\ dpc = "executing"
    /\ issued[running].type = "WaitForFence"
    /\ ExecuteReturn
    /\ UNCHANGED << ringVars, prodVars, cmdReadySignal, cmdConsumedSignal,
                    started, fenceVars, file, ioVars, extVars >>

\* case Command::WaitForFence: cmd.fence.signal->Wait() blocks the dispatcher
\* until the fence is signaled.
ExecuteWaitForFence ==
    /\ dpc = "executing"
    /\ issued[running].type = "WaitForFence"
    /\ fenceSignaled
    /\ fenceSignaled' = FALSE
    /\ ExecuteReturn
    /\ UNCHANGED << ringVars, prodVars, cmdReadySignal, cmdConsumedSignal,
                    started, fenceValue, wpc, wv, file, ioVars, extVars >>

(***************************************************************************)
(* Other threads using the fences.                                         *)
(***************************************************************************)
\* A thread blocked in f.Wait( wv ) returns once the stored value is >= wv.
FenceWaitReturn ==
    /\ Alive
    /\ wpc = "waiting"
    /\ fenceValue >= wv
    /\ wpc' = "returned"
    /\ UNCHANGED << ringVars, prodVars, cmdReadySignal, cmdConsumedSignal,
                    dispVars, fenceValue, fenceSignaled, wv, file, ioVars, extVars >>

\* Another thread calls g.Signal().
FenceSignalByThread ==
    /\ Alive
    /\ ~fenceSignaled
    /\ fenceSignaled' = TRUE
    /\ UNCHANGED << ringVars, prodVars, cmdReadySignal, cmdConsumedSignal,
                    dispVars, fenceValue, wpc, wv, file, ioVars, extVars >>

(***************************************************************************)
(* I/O part: file streams, WriteToFile, CndWriteFile, CmdWriteBuckets.     *)
(***************************************************************************)
Buckets == 0..(BucketCount - 1)

\* The producer's input buffer: the byte at offset off is tagged off + 1, so
\* every byte tells where it came from and none is 0.
Buf(off) == off + 1
BufBytes(off, n) == [ i \in 1..n |-> Buf(off + i - 1) ]

\* The commands the I/O part executes.
IOCommands ==
    { [ type |-> "WriteFile", bucket |-> b, size |-> s, sizes |-> << >> ] :
          b \in Buckets, s \in 0..MaxSize }
    \cup
    { [ type |-> "WriteBuckets", bucket |-> 0, size |-> 0, sizes |-> sz ] :
          sz \in [ 1..BucketCount -> 0..MaxSize ] }

\* sizes[i] of a WriteBuckets command, i counted from 0 as in the code.
SizeOfBucket(i) == ioCmd.sizes[i + 1]

\* FileStream::Write: the bytes go to the stream's position, which advances.
StreamWrite(s, bytes) ==
    LET end    == s.pos + Len(bytes)
        newLen == IF end > Len(s.data) THEN end ELSE Len(s.data)
    IN  [ data |-> [ i \in 1..newLen |->
                       IF i > s.pos /\ i <= end THEN bytes[i - s.pos]
                       ELSE IF i <= Len(s.data) THEN s.data[i] ELSE 0 ],
          pos  |-> end ]

\* The values FileStream::Write( buffer, size ) may return: an error (< 1) or
\* any count from 1 to size.
WriteReturns(size) == (-1)..size

\* RoundUpToNextBoundaryT( value, boundary )
RoundUpToNextBoundaryT(value, boundary) ==
    value + ((boundary - (value % boundary)) % boundary)

\* size / blockSize * blockSize
AlignedSize(size) == (size \div BlockSize) * BlockSize

\* The mutant hands the whole bucket to WriteToFile in direct mode too.
BucketWriteSizeWhole(bufferSize) == bufferSize

\* CmdWriteBuckets: writeSize of a bucket of bufferSize bytes.
BucketWriteSize(bufferSize) ==
    IF ~useDirectIO THEN bufferSize ELSE (bufferSize \div BlockSize) * BlockSize

\* The mutant strides by what was written.
BucketBufferOffsetWritten(bufferSize) == BucketWriteSize(bufferSize)

\* CmdWriteBuckets: bufferOffset, the stride to the next bucket's data.
BucketBufferOffset(bufferSize) ==
    IF ~useDirectIO THEN bufferSize
    ELSE RoundUpToNextBoundaryT(bufferSize, BlockSize)

\* The mutant re-sends from the same place after a short write.
BufferNotAdvanced(buffer, sizeWritten) == buffer

\* buffer += sizeWritten
BufferAfterWrite(buffer, sizeWritten) == buffer + sizeWritten

\* WriteToFile is entered: the direct branch splits size into the aligned
\* part and the remainder.
WriteToFileEnter(stream, size, buffer) ==
    /\ wstream' = stream
    /\ wbuffer' = buffer
    /\ IF ~useDirectIO
         THEN /\ wsize' = size
              /\ wremainder' = 0
         ELSE /\ wsize' = AlignedSize(size)
              /\ wremainder' = size - AlignedSize(size)
    /\ iopc' = "write"

\* WriteToFile returned to its caller: CndWriteFile is done; CmdWriteBuckets
\* advances buffer by bufferOffset and goes to the next bucket.
WriteToFileReturn ==
    IF ioCmd.type = "WriteFile"
      THEN /\ iopc' = "done"
           /\ UNCHANGED << bucket, bucketBuffer >>
      ELSE /\ bucketBuffer' = bucketBuffer + BucketBufferOffset(SizeOfBucket(bucket))
           /\ bucket' = bucket + 1
           /\ iopc' = "bucket"

\* case Command::WriteFile -> CndWriteFile
CndWriteFile ==
    /\ iopc = "execute"
    /\ ioCmd.type = "WriteFile"
    /\ WriteToFileEnter(ioCmd.bucket, ioCmd.size, 0)
    /\ UNCHANGED << useDirectIO, ioCmd, streams, blockBuffer, bucket,
                    bucketBuffer, lastRet, shortWrites, queueVars, extVars >>

\* case Command::WriteBuckets -> CmdWriteBuckets, up to its for loop
CmdWriteBuckets ==
    /\ iopc = "execute"
    /\ ioCmd.type = "WriteBuckets"
    /\ bucket' = 0
    /\ bucketBuffer' = 0
    /\ iopc' = "bucket"
    /\ UNCHANGED << useDirectIO, ioCmd, streams, blockBuffer, writeVars, lastRet,
                    shortWrites, queueVars, extVars >>

\* CmdWriteBuckets: the loop test, and the body up to the WriteToFile call.
WriteBucket ==
    /\ iopc = "bucket"
    /\ IF bucket < BucketCount
         THEN WriteToFileEnter(bucket, BucketWriteSize(SizeOfBucket(bucket)),
                               bucketBuffer)
         ELSE /\ iopc' = "done"
              /\ UNCHANGED writeVars
    /\ UNCHANGED << useDirectIO, ioCmd, streams, blockBuffer, bucket,
                    bucketBuffer, lastRet, shortWrites, queueVars, extVars >>

\* WriteToFile: one pass of  while( size )  /  while( sizeToWrite ).
WriteLoop ==
    /\ iopc = "write"
    /\ wsize > 0
    /\ \E sizeWritten \in WriteReturns(wsize) :
         /\ lastRet' = sizeWritten
         /\ IF sizeWritten < 1
              THEN /\ iopc' = "fatal"
                   /\ UNCHANGED << streams, wsize, wbuffer, shortWrites >>
              ELSE /\ streams' = [ streams EXCEPT ![wstream] =
                                     StreamWrite(@, BufBytes(wbuffer, sizeWritten)) ]
                   /\ wsize' = wsize - sizeWritten
                   /\ wbuffer' = BufferAfterWrite(wbuffer, sizeWritten)
                   /\ shortWrites' = shortWrites + (IF sizeWritten < wsize THEN 1 ELSE 0)
                   /\ UNCHANGED iopc
    /\ UNCHANGED << useDirectIO, ioCmd, blockBuffer, bucket, bucketBuffer,
                    wstream, wremainder, queueVars, extVars >>

\* WriteToFile: the loop ends; the direct branch goes on to  if( remainder ).
WriteLoopDone ==
    /\ iopc = "write"
    /\ wsize = 0
    /\ IF useDirectIO /\ wremainder > 0
         THEN /\ iopc' = "remainder"
              /\ UNCHANGED << bucket, bucketBuffer >>
         ELSE WriteToFileReturn
    /\ UNCHANGED << useDirectIO, ioCmd, streams, blockBuffer, writeVars, lastRet,
                    shortWrites, queueVars, extVars >>

\* memset( blockBuffer, 0, blockSize ); memcpy( blockBuffer, buffer, remainder );
PaddedBlock(buffer, remainder) ==
    [ i \in 1..BlockSize |-> IF i <= remainder THEN Buf(buffer + i - 1) ELSE 0 ]

\* WriteToFile, direct branch: the remainder goes out as one padded block,
\* in a single FileStream::Write whose return is only tested for < 1.
WriteRemainderBlock ==
    /\ iopc = "remainder"
    /\ blockBuffer' = PaddedBlock(wbuffer, wremainder)
    /\ \E sizeWritten \in WriteReturns(BlockSize) :
         /\ lastRet' = sizeWritten
         /\ IF sizeWritten < 1
              THEN /\ iopc' = "fatal"
                   /\ UNCHANGED << streams, shortWrites, bucket, bucketBuffer >>
              ELSE /\ streams' = [ streams EXCEPT ![wstream] =
                                     StreamWrite(@, SubSeq(blockBuffer', 1, sizeWritten)) ]
                   /\ shortWrites' = shortWrites + (IF sizeWritten < BlockSize THEN 1 ELSE 0)
                   /\ WriteToFileReturn
    /\ UNCHANGED << useDirectIO, ioCmd, writeVars, queueVars, extVars >>

(***************************************************************************)
(* Read-back part: SeekFile, SeekBucket, ReadFile / ReadFromFile, and a    *)
(* script of commands the dispatcher executes one after the other.         *)
(***************************************************************************)
\* CDivT( a, b ): the quotient rounded up.
CDivT(a, b) == (a + b - 1) \div b

\* The commands of a script.
WriteFileCmd(b, s) ==
    [ type |-> "WriteFile", bucket |-> b, size |-> s, sizes |-> << >>, offset |-> 0 ]
WriteBucketsCmd(sz) ==
    [ type |-> "WriteBuckets", bucket |-> 0, size |-> 0, sizes |-> sz, offset |-> 0 ]
ReadFileCmd(b, s) ==
    [ type |-> "ReadFile", bucket |-> b, size |-> s, sizes |-> << >>, offset |-> 0 ]
SeekFileCmd(b, o) ==
    [ type |-> "SeekFile", bucket |-> b, size |-> 0, sizes |-> << >>, offset |-> o ]
SeekBucketCmd(o) ==
    [ type |-> "SeekBucket", bucket |-> 0, size |-> 0, sizes |-> << >>, offset |-> o ]

\* WriteBuckets( id, buffers, sizes ); SeekBucket( id, 0, Begin ); then
\* ReadFile( id, i, dst_i, sizes[i] ) for every bucket i.
BucketScript(sz) ==
    << WriteBucketsCmd(sz), SeekBucketCmd(0) >>
    \o [ i \in 1..BucketCount |-> ReadFileCmd(i - 1, sz[i]) ]

\* SeekFile( id, b, o, Begin ); WriteFile( id, b, buffer, s );
\* SeekFile( id, b, o, Begin ); ReadFile( id, b, dst, s ).
FileScript(b, o, s) ==
    << SeekFileCmd(b, o), WriteFileCmd(b, s), SeekFileCmd(b, o), ReadFileCmd(b, s) >>

\* Bucket sizes of the scripts: empty, below a block, one block, the largest.
ScriptSizes == { 0, 1, BlockSize, MaxSize }

\* Offsets of the scripts: the start of the file and the second block.
ScriptOffsets == { 0, BlockSize }

Scripts ==
    { BucketScript(sz) : sz \in [ 1..BucketCount -> ScriptSizes ] }
    \cup
    { FileScript(b, o, s) : b \in { 0, BucketCount - 1 }, o \in ScriptOffsets,
                            s \in 1..MaxSize }

\* FileStream::Seek( offset, SeekOrigin::Begin ): the new position.
StreamSeek(s, offset) == [ s EXCEPT !.pos = offset ]

\* The values FileStream::Read( buffer, size ) may return with avail bytes
\* between the position and the end of the file: an error (-1), 0 at the end
\* of the file, or any count from 1 up to what is there.
ReadReturns(size, avail) ==
    IF avail = 0 THEN { -1, 0 } ELSE { -1 } \cup (1..Min(size, avail))

\* FileStream::Read: the n bytes at the stream's position.
StreamRead(s, n) == SubSeq(s.data, s.pos + 1, s.pos + n)

\* The bytes land in the destination buffer at offset off.
DstStore(d, off, bytes) ==
    LET end    == off + Len(bytes)
        newLen == IF end > Len(d) THEN end ELSE Len(d)
    IN  [ i \in 1..newLen |->
            IF i > off /\ i <= end THEN bytes[i - off]
            ELSE IF i <= Len(d) THEN d[i] ELSE 0 ]

\* The mutant rewinds the first stream of the set only.
SeekBucketFirstOnly == { 0 }

\* CmdSeekBucket: the streams the loop seeks.
SeekBucketStreams == Buckets

\* ReadFromFile: the number of bytes to read.
ReadSize(size) ==
    IF ~useDirectIO THEN size ELSE CDivT(size, BlockSize) * BlockSize

\* The mutant stores every chunk at the start of the destination.
ReadBufferNotAdvanced(buffer, sizeRead) == buffer

\* buffer += sizeRead
ReadBufferAfterRead(buffer, sizeRead) == buffer + sizeRead

\* case Command::SeekFile
CmdSeekFile ==
    /\ iopc = "execute"
    /\ ioCmd.type = "SeekFile"
    /\ \E ok \in BOOLEAN :
         IF ok
           THEN /\ streams' = [ streams EXCEPT ![ioCmd.bucket] =
                                  StreamSeek(@, ioCmd.offset) ]
                /\ iopc' = "done"
                /\ UNCHANGED seekFailed
           ELSE /\ iopc' = "fatal"
                /\ seekFailed' = TRUE
                /\ UNCHANGED streams
    /\ UNCHANGED << useDirectIO, ioCmd, blockBuffer, bucket, bucketBuffer,
                    writeVars, lastRet, shortWrites, script, sidx, dst, rstream,
                    rsize, rbuffer, lastRead, queueVars, heapVars, fsVars, bitVars, restVars >>

\* case Command::SeekBucket -> CmdSeekBucket: the same seek on every stream
\* of the set; the first failing seek is fatal.
CmdSeekBucket ==
    /\ iopc = "execute"
    /\ ioCmd.type = "SeekBucket"
    /\ \E failAt \in Buckets \cup { BucketCount } :
         /\ streams' = [ b \in Buckets |->
                           IF b < failAt /\ b \in SeekBucketStreams
                             THEN StreamSeek(streams[b], ioCmd.offset)
                             ELSE streams[b] ]
         /\ IF failAt = BucketCount
              THEN iopc' = "done" /\ UNCHANGED seekFailed
              ELSE iopc' = "fatal" /\ seekFailed' = TRUE
    /\ UNCHANGED << useDirectIO, ioCmd, blockBuffer, bucket, bucketBuffer,
                    writeVars, lastRet, shortWrites, script, sidx, dst, rstream,
                    rsize, rbuffer, lastRead, queueVars, heapVars, fsVars, bitVars, restVars >>

\* case Command::ReadFile -> CmdReadFile -> ReadFromFile, up to its loop.
CmdReadFile ==
    /\ iopc = "execute"
    /\ ioCmd.type = "ReadFile"
    /\ rstream' = ioCmd.bucket
    /\ rsize' = ReadSize(ioCmd.size)
    /\ rbuffer' = 0
    /\ iopc' = "read"
    /\ UNCHANGED << useDirectIO, ioCmd, streams, blockBuffer, bucket,
                    bucketBuffer, writeVars, lastRet, shortWrites, script, sidx,
                    dst, lastRead, seekFailed, queueVars, heapVars, fsVars, bitVars, restVars >>

\* ReadFromFile: one pass of  while( size )  /  while( sizeToRead ).
ReadLoop ==
    /\ iopc = "read"
    /\ rsize > 0
    /\ \E sizeRead \in ReadReturns(rsize, Len(streams[rstream].data)
                                           - streams[rstream].pos) :
         /\ lastRead' = sizeRead
         /\ IF sizeRead < 1
              THEN /\ iopc' = "fatal"
                   /\ UNCHANGED << streams, dst, rsize, rbuffer >>
              ELSE /\ dst' = [ dst EXCEPT ![rstream] =
                                 DstStore(@, rbuffer, StreamRead(streams[rstream], sizeRead)) ]
                   /\ streams' = [ streams EXCEPT ![rstream].pos = @ + sizeRead ]
                   /\ rsize' = rsize - sizeRead
                   /\ rbuffer' = ReadBufferAfterRead(rbuffer, sizeRead)
                   /\ UNCHANGED iopc
    /\ UNCHANGED << useDirectIO, ioCmd, blockBuffer, bucket, bucketBuffer,
                    writeVars, lastRet, shortWrites, script, sidx, rstream,
                    seekFailed, queueVars, heapVars, fsVars, bitVars, restVars >>

\* ReadFromFile: the loop ends and the command is done.
ReadLoopDone ==
    /\ iopc = "read"
    /\ rsize = 0
    /\ iopc' = "done"
    /\ UNCHANGED << useDirectIO, ioCmd, streams, blockBuffer, bucket,
                    bucketBuffer, writeVars, lastRet, shortWrites, script, sidx,
                    dst, rstream, rsize, rbuffer, lastRead, seekFailed, queueVars, heapVars, fsVars, bitVars, restVars >>

\* CommandMain: ExecuteCommand returned, the next command of the batch is
\* executed; the locals of the finished call are gone.
NextCommand ==
    /\ iopc = "done"
    /\ sidx < Len(script)
    /\ sidx' = sidx + 1
    /\ ioCmd' = script[sidx + 1]
    /\ iopc' = "execute"
    /\ lastRet' = 1
    /\ shortWrites' = 0
    /\ lastRead' = 1
    /\ wstream' = 0
    /\ wsize' = 0
    /\ wbuffer' = 0
    /\ wremainder' = 0
    /\ bucket' = 0
    /\ bucketBuffer' = 0
    /\ rstream' = 0
    /\ rbuffer' = 0
    /\ UNCHANGED << useDirectIO, streams, blockBuffer, script, dst, rsize,
                    seekFailed, queueVars, heapVars, fsVars, bitVars, restVars >>

(***************************************************************************)
(* Work heap part: Allocate by the producer, ReleaseBuffer commands        *)
(* executed by the dispatcher, CompletePendingReleases.                    *)
(***************************************************************************)
HeapAddrs == 0..(HeapSize - 1)

\* The bytes of a buffer.
Region(b) == b.addr..(b.addr + b.size - 1)

\* The mutant offers every region of the heap, free or not.
AnyRegions(n) == { a \in HeapAddrs : a + n <= HeapSize }

\* Allocate: the start addresses of the free regions of n contiguous bytes.
FreeRegions(n) ==
    { a \in HeapAddrs : a + n <= HeapSize /\ \A x \in a..(a + n - 1) : x \in heapFree }

\* The bytes of the releases the dispatcher announced.
PendingBytes == UNION { Region(b) : b \in heapPending }

\* Allocate( n ) returns a free region to the producer.
Allocate ==
    /\ allocCount < MaxAllocs
    /\ \E n \in 1..MaxAllocSize :
         /\ FreeRegions(n) # { }
         /\ \E a \in FreeRegions(n) :
              LET b == [ id |-> allocCount + 1, addr |-> a, size |-> n ]
              IN  /\ owned' = owned \cup { b }
                  /\ heapFree' = heapFree \ Region(b)
    /\ allocCount' = allocCount + 1
    /\ UNCHANGED << heapPending, releaseCmds >>
    /\ UNCHANGED << queueVars, ioVars, rwVars, fsVars, bitVars, restVars >>

\* Allocate( n ) finds too little free space: it first drains the releases
\* the dispatcher announced, then looks again (and waits if that fails).
AllocateDrain ==
    /\ allocCount < MaxAllocs
    /\ heapPending # { }
    /\ \E n \in 1..MaxAllocSize : FreeRegions(n) = { }
    /\ heapFree' = heapFree \cup PendingBytes
    /\ heapPending' = { }
    /\ UNCHANGED << owned, releaseCmds, allocCount >>
    /\ UNCHANGED << queueVars, ioVars, rwVars, fsVars, bitVars, restVars >>

\* DiskBufferQueue::ReleaseBuffer( buffer ) followed by CommitCommands: the
\* producer gives up a buffer it owns.
ReleaseBuffer ==
    /\ \E b \in owned :
         /\ owned' = owned \ { b }
         /\ releaseCmds' = Append(releaseCmds, b)
    /\ UNCHANGED << heapFree, heapPending, allocCount >>
    /\ UNCHANGED << queueVars, ioVars, rwVars, fsVars, bitVars, restVars >>

\* case Command::ReleaseBuffer: _workHeap.Release( cmd.releaseBuffer.buffer ),
\* on the dispatcher thread; the release is announced, not yet reconciled.
ExecuteReleaseBuffer ==
    /\ releaseCmds # << >>
    /\ heapPending' = heapPending \cup { Head(releaseCmds) }
    /\ releaseCmds' = Tail(releaseCmds)
    /\ UNCHANGED << heapFree, owned, allocCount >>
    /\ UNCHANGED << queueVars, ioVars, rwVars, fsVars, bitVars, restVars >>

\* DiskBufferQueue::CompletePendingReleases, on the producer thread.
CompletePendingReleases ==
    /\ heapPending # { }
    /\ heapFree' = heapFree \cup PendingBytes
    /\ heapPending' = { }
    /\ UNCHANGED << owned, releaseCmds, allocCount >>
    /\ UNCHANGED << queueVars, ioVars, rwVars, fsVars, bitVars, restVars >>

(***************************************************************************)
(* File-set part: the constructor's InitFileSet calls, OpenPlotFile and    *)
(* the plot header, DeleteFile / DeleteBucket, on a small set of file ids. *)
(***************************************************************************)
\* FileId values of the model: a bucketed set, a single-file set, the plot.
FileIds == { "Y0", "T2_L", "PLOT" }

\* The InitFileSet calls of the constructor, in order.
ConstructorSets == << "Y0", "T2_L" >>

\* The name argument of InitFileSet.
FileSetName(id) ==
    CASE id = "Y0"   -> "y0"
      [] id = "T2_L" -> "table_2_l"
      [] id = "PLOT" -> "plot"

\* The bucketCount argument of InitFileSet.
BucketCountOf(id) == IF id = "Y0" THEN BucketCount ELSE 1

\* sprintf( baseName, "%s_%u.tmp", name, i ): bucket -1 stands for no suffix.
TempPath(name, i) == [ name |-> name, bucket |-> i ]

\* InitFileSet: the path of stream i, the plot file's name taken verbatim.
PathOf(id, i) ==
    IF id # "PLOT" THEN TempPath(FileSetName(id), i)
    ELSE [ name |-> FileSetName(id), bucket |-> -1 ]

\* fileSet.files.values = new FileStream[bucketCount]: closed streams.
NewStreams(id) ==
    [ i \in 1..BucketCountOf(id) |-> [ open |-> FALSE, blockSize |-> 0 ] ]

\* The block sizes a device may report for a file.
ReportedBlockSizes == { 1, BlockSize, BlockSize + 1 }

\* Fatal() was called nowhere: the process is alive.
FsAlive == fsFatal = "none"

\* A stream of a file set is opened, replaced or closed by a thread.
Mutation(thread, op, id) == [ thread |-> thread, op |-> op, id |-> id ]

\* Mutations are recorded once the dispatcher thread runs.
Recorded(ms) == IF dispRunning THEN ms ELSE { }

\* The mutant skips the comparison with the recorded block size.
BlockSizeNeverDiffers(id, bs) == FALSE

\* else if( fileId != FileId::PLOT ) if( file.BlockSize() != _blockSize )
BlockSizeDiffers(id, bs) == id # "PLOT" /\ bs # fsBlockSize

\* The constructor calls InitFileSet for its next file set: the set gets its
\* name and fresh streams.
CtorInitFileSet ==
    /\ FsAlive
    /\ fsPc = "ctor"
    /\ ctorIdx <= Len(ConstructorSets)
    /\ LET id == ConstructorSets[ctorIdx]
       IN  /\ fileSets' = [ fileSets EXCEPT ![id] = NewStreams(id) ]
           /\ initId' = id
           /\ reopened' = IF deleted[id] = "ok" THEN reopened \cup { id } ELSE reopened
           /\ deleted' = [ deleted EXCEPT ![id] = "none" ]
    /\ initIdx' = 0
    /\ initCaller' = "ctor"
    /\ fsPc' = "open"
    /\ UNCHANGED << ctorIdx, fsys, fsBlockSize, fsBlockBuffer, fsLog, fsFatal,
                    didOpen, dispRunning, fsCmds, fsCallCount, mutations,
                    restarts, plotVars >>
    /\ UNCHANGED << queueVars, ioVars, rwVars, heapVars, bitVars, restVars >>

\* The constructor's last statement: _dispatchThread.Run( CommandThreadMain ).
CtorRunDispatcher ==
    /\ FsAlive
    /\ fsPc = "ctor"
    /\ ctorIdx > Len(ConstructorSets)
    /\ dispRunning' = TRUE
    /\ fsPc' = "idle"
    /\ UNCHANGED << ctorIdx, initId, initIdx, initCaller, fileSets, fsys,
                    fsBlockSize, fsBlockBuffer, fsLog, fsFatal, didOpen, fsCmds,
                    fsCallCount, mutations, deleted, reopened, restarts, plotVars >>
    /\ UNCHANGED << queueVars, ioVars, rwVars, heapVars, bitVars, restVars >>

\* InitFileSet: one pass of the loop over the buckets: file.Open, then the
\* block-size bookkeeping.
InitFileSetOpen ==
    /\ FsAlive
    /\ fsPc = "open"
    /\ initIdx < BucketCountOf(initId)
    /\ \E ok \in BOOLEAN, bs \in ReportedBlockSizes :
         IF ~ok
           THEN /\ IF initId = "PLOT"
                     THEN /\ fsLog' = fsLog \cup
                               { [ msg |-> "Failed to open plot file", id |-> initId,
                                   bucket |-> initIdx ] }
                          /\ didOpen' = "false"
                          /\ fsPc' = "plotCheck"
                          /\ UNCHANGED fsFatal
                     ELSE /\ fsFatal' = "OpenTemp"
                          /\ UNCHANGED << fsLog, didOpen, fsPc >>
                /\ UNCHANGED << fileSets, fsys, fsBlockSize, fsBlockBuffer,
                                initIdx, mutations, plotFile >>
           ELSE /\ fileSets' = [ fileSets EXCEPT ![initId][initIdx + 1] =
                                   [ open |-> TRUE, blockSize |-> bs ] ]
                /\ fsys' = fsys \cup { PathOf(initId, initIdx) }
                /\ plotFile' = IF initId = "PLOT" THEN << >> ELSE plotFile
                /\ mutations' = mutations \cup
                       Recorded({ Mutation("producer", initCaller, initId) })
                /\ IF ~fsBlockBuffer
                     THEN /\ fsBlockSize' = bs
                          /\ IF bs < 2
                               THEN fsFatal' = "InvalidBlockSize"
                                    /\ UNCHANGED fsBlockBuffer
                               ELSE fsBlockBuffer' = TRUE
                                    /\ UNCHANGED fsFatal
                     ELSE /\ fsFatal' = IF BlockSizeDiffers(initId, bs)
                                          THEN "BlockSize" ELSE fsFatal
                          /\ UNCHANGED << fsBlockSize, fsBlockBuffer >>
                /\ initIdx' = initIdx + 1
                /\ UNCHANGED << fsLog, didOpen, fsPc >>
    /\ UNCHANGED << ctorIdx, initId, initCaller, dispRunning, fsCmds, fsCallCount,
                    deleted, reopened, restarts, plotCalls, plotMemoSize,
                    plotHeaderSize, plotTablesPointers, plotHeaderBuffer,
                    plotHeaderCap, headersBuilt, plotWritesEnqueued,
                    plotWritesDone >>
    /\ UNCHANGED << queueVars, ioVars, rwVars, heapVars, bitVars, restVars >>

\* InitFileSet: the loop is over,  return true.
InitFileSetReturn ==
    /\ FsAlive
    /\ fsPc = "open"
    /\ initIdx = BucketCountOf(initId)
    /\ IF initCaller = "ctor"
         THEN /\ ctorIdx' = ctorIdx + 1
              /\ fsPc' = "ctor"
              /\ UNCHANGED didOpen
         ELSE /\ didOpen' = "true"
              /\ fsPc' = "plotCheck"
              /\ UNCHANGED ctorIdx
    /\ UNCHANGED << initId, initIdx, initCaller, fileSets, fsys, fsBlockSize,
                    fsBlockBuffer, fsLog, fsFatal, dispRunning, fsCmds, fsCallCount,
                    mutations, deleted, reopened, restarts, plotVars >>
    /\ UNCHANGED << queueVars, ioVars, rwVars, heapVars, bitVars, restVars >>

(***************************************************************************)
(* The plot header.  Bytes of the constant strings and of the arguments    *)
(* are tagged by where they come from; length fields are real bytes.       *)
(***************************************************************************)
kPOSMagic          == [ i \in 1..MagicLen |-> 1000 + i ]
kFormatDescription == [ i \in 1..FormatLen |-> 4000 + i ]
PlotIdBytes        == [ i \in 1..PlotIdLen |-> 2000 + i ]
MemoBytes(n)       == [ i \in 1..n |-> 3000 + i ]

\* The memo sizes OpenPlotFile is called with (ASSERT( plotMemoSize )).
MemoSizes == 1..MaxMemoSize

\* Swap16( x )
Swap16(x) == (x % 256) * 256 + (x \div 256)

\* *((uint16*)headerWriter) = x  on a little-endian host.
StoreU16(x) == << x % 256, x \div 256 >>

\* *((uint16*)headerWriter) = Swap16( x )
EncodeLength(x) == StoreU16(Swap16(x))

\* const size_t headerSize = ...
HeaderSize(memoSize) ==
    MagicLen + PlotIdLen + 1 + 2 + FormatLen + 2 + memoSize + TablePointersLen

\* The bytes the encoder stores, from the magic to the end of the memo.
EncodedHeader(memoSize) ==
    kPOSMagic \o PlotIdBytes \o << K % 256 >>
    \o EncodeLength(FormatLen) \o kFormatDescription
    \o EncodeLength(memoSize) \o MemoBytes(memoSize)

\* The header buffer after the encoder stored hdr in a buffer of cap bytes
\* holding old; the table-pointer bytes are left as they are.  Storing past
\* the end of the allocation is undefined: the bytes land in the slack of the
\* allocation, or they are lost.
HeaderBufferAfter(old, cap, hdr, size) ==
    LET kept(i) == IF i <= Len(old) THEN old[i] ELSE 0
    IN  { [ i \in 1..(IF size > Len(old) THEN size ELSE Len(old)) |->
              IF i <= Len(hdr) /\ (i <= cap \/ lands) THEN hdr[i] ELSE kept(i) ]
          : lands \in IF Len(hdr) > cap THEN BOOLEAN ELSE { TRUE } }

\* What WriteToFile leaves in the file for a buffer of bytes, and whether it
\* ended in Fatal: buffered, everything; direct, the aligned part and then
\* one padded block, of which the stream may take only a part.
PlotWriteResults(bytes) ==
    LET size    == Len(bytes)
        aligned == (size \div fsBlockSize) * fsBlockSize
        rem     == size - aligned
        block   == [ i \in 1..fsBlockSize |->
                       IF i <= rem THEN bytes[aligned + i] ELSE 0 ]
    IN  { [ fatal |-> TRUE, written |-> << >> ] }
        \cup
        IF ~useDirectIO \/ rem = 0
          THEN { [ fatal |-> FALSE, written |-> bytes ] }
          ELSE { [ fatal |-> FALSE,
                   written |-> SubSeq(bytes, 1, aligned) \o SubSeq(block, 1, k) ]
                 : k \in 1..fsBlockSize }

\* The mutant goes on after a failed open.
OpenFailureIgnored == FALSE

\* FatalIf( !didOpen, "Failed to open plot file." )
OpenFailureIsFatal == didOpen = "false"

\* OpenPlotFile is called on a producer thread: it calls InitFileSet for the
\* plot file, which gives the set its name and a fresh stream.
OpenPlotFile ==
    /\ FsAlive
    /\ fsPc = "idle"
    /\ plotCalls < MaxPlots
    /\ \E n \in MemoSizes : plotMemoSize' = n
    /\ plotCalls' = plotCalls + 1
    /\ fileSets' = [ fileSets EXCEPT !["PLOT"] = NewStreams("PLOT") ]
    /\ mutations' = mutations \cup
           Recorded({ Mutation("producer", "OpenPlotFile", "PLOT") })
    /\ initId' = "PLOT"
    /\ initIdx' = 0
    /\ initCaller' = "OpenPlotFile"
    /\ didOpen' = "none"
    /\ fsPc' = "open"
    /\ deleted' = [ deleted EXCEPT !["PLOT"] = "none" ]
    /\ UNCHANGED << ctorIdx, fsys, fsBlockSize, fsBlockBuffer, fsLog, fsFatal,
                    dispRunning, fsCmds, fsCallCount, reopened, restarts,
                    plotHeaderSize, plotTablesPointers, plotHeaderBuffer,
                    plotHeaderCap, headersBuilt, plotWritesEnqueued,
                    plotWritesDone, plotFile >>
    /\ UNCHANGED << queueVars, ioVars, rwVars, heapVars, bitVars, restVars >>

\* OpenPlotFile after InitFileSet returned: FatalIf( !didOpen ), then the
\* header is sized, allocated on the first call, encoded, and handed to the
\* dispatcher with WriteFile and CommitCommands.
OpenPlotFileHeader ==
    /\ FsAlive
    /\ fsPc = "plotCheck"
    /\ IF OpenFailureIsFatal
         THEN /\ fsFatal' = "OpenPlot"
              /\ UNCHANGED << fsPc, plotHeaderSize, plotTablesPointers,
                              plotHeaderBuffer, plotHeaderCap, headersBuilt,
                              plotWritesEnqueued, fsCmds >>
         ELSE LET size == HeaderSize(plotMemoSize)
                  cap  == IF plotHeaderCap = 0 THEN size ELSE plotHeaderCap
                  hdr  == EncodedHeader(plotMemoSize)
              IN  /\ plotHeaderSize' = size
                  /\ plotHeaderCap' = cap
                  /\ plotHeaderBuffer' \in
                         HeaderBufferAfter(plotHeaderBuffer, cap, hdr, size)
                  /\ plotTablesPointers' = Len(hdr)
                  /\ headersBuilt' = headersBuilt + 1
                  /\ fsCmds' = Append(fsCmds,
                         [ type |-> "WriteFile", id |-> "PLOT", bucket |-> 0,
                           size |-> size ])
                  /\ plotWritesEnqueued' = plotWritesEnqueued + 1
                  /\ fsPc' = "idle"
                  /\ UNCHANGED fsFatal
    /\ UNCHANGED << ctorIdx, initId, initIdx, initCaller, fileSets, fsys,
                    fsBlockSize, fsBlockBuffer, fsLog, didOpen, dispRunning,
                    fsCallCount, mutations, deleted, reopened, restarts, plotCalls,
                    plotMemoSize, plotWritesDone, plotFile >>
    /\ UNCHANGED << queueVars, ioVars, rwVars, heapVars, bitVars, restVars >>

(***************************************************************************)
(* DeleteFile and DeleteBucket: enqueued by the producer, executed by the  *)
(* dispatcher.                                                             *)
(***************************************************************************)
\* The thread a command is executed on: the mutant runs it on the caller.
ExecuteOnCaller == "producer"

\* CommandThreadMain -> CommandMain -> ExecuteCommand: the dispatcher thread.
ExecuteThread == "dispatcher"

\* The mutant deletes the first file of the set only.
DeleteTargetsFirst(id) == { i \in { 0 } : i < Len(fileSets[id]) }

\* CmdDeleteBucket: for( i = 0; i < fileBuckets.files.length; i++ )
DeleteTargets(id) == 0..(Len(fileSets[id]) - 1)

\* remove( path ) cannot succeed on a file that does not exist.
MustFail(id, targets) ==
    { i \in targets : TempPath(FileSetName(id), i) \notin fsys }

\* Log::Error( "Error: Failed to delete file ..." )
DeleteFailures(id, failed) ==
    { [ msg |-> "Failed to delete file", id |-> id, bucket |-> i ] : i \in failed }

\* DiskBufferQueue::DeleteBucket( id ), then CommitCommands.
DeleteBucket ==
    /\ FsAlive
    /\ fsPc = "idle"
    /\ fsCallCount < MaxFsCmds
    /\ \E id \in FileIds :
         fsCmds' = Append(fsCmds, [ type |-> "DeleteBucket", id |-> id,
                                    bucket |-> 0, size |-> 0 ])
    /\ fsCallCount' = fsCallCount + 1
    /\ UNCHANGED << fsPc, ctorIdx, initId, initIdx, initCaller, fileSets, fsys,
                    fsBlockSize, fsBlockBuffer, fsLog, fsFatal, didOpen,
                    dispRunning, mutations, deleted, reopened, restarts,
                    plotVars >>
    /\ UNCHANGED << queueVars, ioVars, rwVars, heapVars, bitVars, restVars >>

\* DiskBufferQueue::DeleteFile( id, bucket ), then CommitCommands.
DeleteFile ==
    /\ FsAlive
    /\ fsPc = "idle"
    /\ fsCallCount < MaxFsCmds
    /\ \E id \in FileIds : \E b \in { 0, BucketCountOf(id) - 1 } :
         /\ b < Len(fileSets[id])
         /\ fsCmds' = Append(fsCmds, [ type |-> "DeleteFile", id |-> id,
                                       bucket |-> b, size |-> 0 ])
    /\ fsCallCount' = fsCallCount + 1
    /\ UNCHANGED << fsPc, ctorIdx, initId, initIdx, initCaller, fileSets, fsys,
                    fsBlockSize, fsBlockBuffer, fsLog, fsFatal, didOpen,
                    dispRunning, mutations, deleted, reopened, restarts,
                    plotVars >>
    /\ UNCHANGED << queueVars, ioVars, rwVars, heapVars, bitVars, restVars >>

\* case Command::DeleteBucket -> CmdDeleteBucket: every stream of the set is
\* closed and its file removed; a failed remove is logged and the loop goes on.
CmdDeleteBucket ==
    /\ FsAlive
    /\ dispRunning
    /\ fsCmds # << >>
    /\ Head(fsCmds).type = "DeleteBucket"
    /\ LET id      == Head(fsCmds).id
           targets == DeleteTargets(id)
       IN  \E failed \in SUBSET targets :
             /\ MustFail(id, targets) \subseteq failed
             /\ fileSets' = [ fileSets EXCEPT ![id] =
                    [ i \in 1..Len(fileSets[id]) |->
                        IF (i - 1) \in targets
                          THEN [ fileSets[id][i] EXCEPT !.open = FALSE ]
                          ELSE fileSets[id][i] ] ]
             /\ fsys' = fsys \ { TempPath(FileSetName(id), i) : i \in targets \ failed }
             /\ fsLog' = fsLog \cup DeleteFailures(id, failed)
             /\ deleted' = [ deleted EXCEPT ![id] =
                               IF failed = { } THEN "ok" ELSE "failed" ]
             /\ mutations' = mutations \cup
                    { Mutation(ExecuteThread, "DeleteBucket", id) }
    /\ fsCmds' = Tail(fsCmds)
    /\ UNCHANGED << fsPc, ctorIdx, initId, initIdx, initCaller, fsBlockSize,
                    fsBlockBuffer, fsFatal, didOpen, dispRunning, fsCallCount,
                    reopened, restarts, plotVars >>
    /\ UNCHANGED << queueVars, ioVars, rwVars, heapVars, bitVars, restVars >>

\* case Command::DeleteFile -> CmdDeleteFile
CmdDeleteFile ==
    /\ FsAlive
    /\ dispRunning
    /\ fsCmds # << >>
    /\ Head(fsCmds).type = "DeleteFile"
    /\ LET id == Head(fsCmds).id
           b  == Head(fsCmds).bucket
       IN  \E failed \in SUBSET { b } :
             /\ MustFail(id, { b }) \subseteq failed
             /\ fileSets' = [ fileSets EXCEPT ![id][b + 1].open = FALSE ]
             /\ fsys' = fsys \ { TempPath(FileSetName(id), i) : i \in { b } \ failed }
             /\ fsLog' = fsLog \cup DeleteFailures(id, failed)
             /\ mutations' = mutations \cup
                    { Mutation(ExecuteThread, "DeleteFile", id) }
    /\ fsCmds' = Tail(fsCmds)
    /\ UNCHANGED << fsPc, ctorIdx, initId, initIdx, initCaller, fsBlockSize,
                    fsBlockBuffer, fsFatal, didOpen, dispRunning, fsCallCount,
                    deleted, reopened, restarts, plotVars >>
    /\ UNCHANGED << queueVars, ioVars, rwVars, heapVars, bitVars, restVars >>

\* case Command::WriteFile for the plot header -> CndWriteFile -> WriteToFile:
\* the dispatcher reads the header buffer when it executes the command.
CndWritePlotHeader ==
    /\ FsAlive
    /\ dispRunning
    /\ fsCmds # << >>
    /\ Head(fsCmds).type = "WriteFile"
    /\ \E r \in PlotWriteResults(SubSeq(plotHeaderBuffer, 1, Head(fsCmds).size)) :
         /\ ~fileSets["PLOT"][1].open => r.fatal
         /\ IF r.fatal
              THEN /\ fsFatal' = "Write"
                   /\ UNCHANGED << plotFile, plotWritesDone, mutations >>
              ELSE /\ plotFile' = plotFile \o r.written
                   /\ plotWritesDone' = plotWritesDone + 1
                   /\ mutations' = mutations \cup
                          { Mutation(ExecuteThread, "WriteFile", "PLOT") }
                   /\ UNCHANGED fsFatal
    /\ fsCmds' = Tail(fsCmds)
    /\ UNCHANGED << fsPc, ctorIdx, initId, initIdx, initCaller, fileSets, fsys,
                    fsBlockSize, fsBlockBuffer, fsLog, didOpen, dispRunning,
                    fsCallCount, deleted, reopened, restarts, plotCalls,
                    plotMemoSize, plotHeaderSize, plotTablesPointers,
                    plotHeaderBuffer, plotHeaderCap, headersBuilt,
                    plotWritesEnqueued >>
    /\ UNCHANGED << queueVars, ioVars, rwVars, heapVars, bitVars, restVars >>

\* A new DiskBufferQueue is constructed on the same work directory, the
\* files of the earlier one still on disk.
Reconstruct ==
    /\ FsAlive
    /\ fsPc = "idle"
    /\ fsCmds = << >>
    /\ restarts < MaxRestarts
    /\ restarts' = restarts + 1
    /\ fsPc' = "ctor"
    /\ ctorIdx' = 1
    /\ initId' = "Y0"
    /\ initIdx' = 0
    /\ initCaller' = "ctor"
    /\ fileSets' = [ id \in FileIds |-> << >> ]
    /\ fsBlockSize' = 0
    /\ fsBlockBuffer' = FALSE
    /\ didOpen' = "none"
    /\ dispRunning' = FALSE
    /\ fsCallCount' = 0
    /\ mutations' = { }
    /\ plotCalls' = 0
    /\ plotMemoSize' = 0
    /\ plotHeaderSize' = 0
    /\ plotTablesPointers' = 0
    /\ plotHeaderBuffer' = << >>
    /\ plotHeaderCap' = 0
    /\ headersBuilt' = 0
    /\ plotWritesEnqueued' = 0
    /\ plotWritesDone' = 0
    /\ UNCHANGED << fsys, fsLog, fsFatal, fsCmds, deleted, reopened, plotFile >>
    /\ UNCHANGED << queueVars, ioVars, rwVars, heapVars, bitVars, restVars >>

(***************************************************************************)
(* BitReader (src/util/BitView.h).  A uint64 is the set of the positions   *)
(* of its set bits, bit 0 the least significant; the host is               *)
(* little-endian, as the unconditional Swap64 of the constructor assumes.  *)
(***************************************************************************)
Bits == 0..(WordBits - 1)

\* 0xFFFFFFFFFFFFFFFFull
AllOnes == Bits

\* x << s and x >> s on a uint64, 0 <= s < 64.
Shl(w, s) == { b + s : b \in { x \in w : x + s < WordBits } }

Shr(w, s) == { b - s : b \in { x \in w : x >= s } }

\* Swap64: the eight bytes in the opposite order.
Swap64(w) == { 8 * (7 - (b \div 8)) + (b % 8) : b \in w }

\* The eight bytes in memory of a field written big-endian: byte 0 is the
\* most significant one.
BytesBE(f) == [ j \in 0..7 |-> { b \in 0..7 : (8 * (7 - j) + b) \in f } ]

\* The uint64 a little-endian host loads from eight bytes in memory.
LoadLE(bytes) == UNION { { 8 * j + b : b \in bytes[j] } : j \in 0..7 }

\* Field values written to the buffers: 0xAAAAAAAAAAAAAAAA, 0xBBBBBBBBBBBBBBBB
\* and 0x0123456789ABCDEF.
FieldA == { b \in Bits : b % 2 = 1 }

FieldB == { b \in Bits : b % 4 # 2 }

FieldX == { b \in Bits : ((15 - (b \div 4)) \div (2 ^ (b % 4))) % 2 = 1 }

FieldValues == { FieldA, FieldB, FieldX }

\* The data of a field of which only the n most significant bits are used.
LeftJustified(f, n) == { b \in f : b >= WordBits - n }

\* Buffers of whole fields handed to the reader, as the field values written.
WholeBuffers == { << FieldA >>, << FieldX >>, << FieldA, FieldB >>,
                  << FieldX, FieldA >>, << FieldB, FieldX >> }

\* ReadBits64: bitCount.
BitCounts == 1..WordBits

\* _fields[i] as ReadBits64 reads it; past the buffer the read is undefined:
\* any value.
FieldReads(i) ==
    IF i + 1 \in DOMAIN brFields THEN { brFields[i + 1] } ELSE { { }, AllOnes }

\* BitReader::BitReader: every whole field is swapped in place, a trailing
\* partial field is shifted left by 64 - bitsRemainder and then swapped.
BitReaderNew ==
    /\ brPc = "buffer"
    /\ LET fieldCount    == brSizeBits \div WordBits
           bitsRemainder == brSizeBits - fieldCount * WordBits
       IN brFields' =
              [ i \in DOMAIN brFields |->
                  IF i <= fieldCount THEN Swap64(brFields[i])
                  ELSE IF i = fieldCount + 1 /\ bitsRemainder # 0
                       THEN Swap64(Shl(brFields[i], WordBits - bitsRemainder))
                       ELSE brFields[i] ]
    /\ brPosition' = 0
    /\ brPc' = "ready"
    /\ UNCHANGED << brSizeBits, brWritten, brBitCount, brValue, brFrom, brTouched,
                    queueVars, ioVars, rwVars, heapVars, fsVars, restVars >>

\* ReadBits64: the shift that brings the bits read to the bottom of the
\* current field.
FieldShift(bitCount, bitsAvailable) ==
    (IF bitCount > bitsAvailable THEN bitCount ELSE bitsAvailable) - bitCount

\* The mutant shifts the next field by the bits needed from it.
SpillShiftByNeeded(bitsNeeded) == bitsNeeded

\* ReadBits64: the shift that brings the bits needed from the next field to
\* its bottom.
SpillShift(bitsNeeded) == WordBits - bitsNeeded

\* BitReader::ReadBits64, called within the declared size (the ASSERTs hold).
ReadBits64 ==
    /\ brPc = "ready"
    /\ \E bitCount \in BitCounts :
         /\ brPosition + bitCount <= brSizeBits
         /\ LET fieldIndex    == brPosition \div WordBits
                bitsAvailable == ((fieldIndex + 1) * WordBits) - brPosition
                shift         == FieldShift(bitCount, bitsAvailable)
                bitsNeeded    == bitCount - bitsAvailable
            IN \E field \in FieldReads(fieldIndex) :
               \E next \in (IF bitsAvailable < bitCount
                            THEN FieldReads(fieldIndex + 1) ELSE { { } }) :
                 LET value == IF bitsAvailable < bitCount
                              THEN Shl(Shr(field, shift), bitsNeeded)
                                       \cup Shr(next, SpillShift(bitsNeeded))
                              ELSE Shr(field, shift)
                 IN /\ brValue' = value \cap Shr(AllOnes, WordBits - bitCount)
                    /\ brTouched' = IF bitsAvailable < bitCount
                                    THEN { fieldIndex, fieldIndex + 1 }
                                    ELSE { fieldIndex }
         /\ brBitCount' = bitCount
         /\ brFrom' = brPosition
         /\ brPosition' = brPosition + bitCount
    /\ UNCHANGED << brPc, brFields, brSizeBits, brWritten,
                    queueVars, ioVars, rwVars, heapVars, fsVars, restVars >>

(***************************************************************************)
(* BitReader::ReadBits128.  A uint128 is the set of the positions of its   *)
(* set bits, 0..127; a uint64 operand is shifted as a uint64 before it is  *)
(* widened.                                                                *)
(***************************************************************************)
\* x << s on a uint128.
Shl128(w, s) == { b + s : b \in { x \in w : x + s < 2 * WordBits } }

\* x >> s on a uint128.
Shr128(w, s) == { b - s : b \in { x \in w : x >= s } }

\* uint128( 0xFFFFFFFFFFFFFFFFull, 0xFFFFFFFFFFFFFFFFull )
AllOnes128 == 0..(2 * WordBits - 1)

\* ReadBits128: bitCount.
BitCounts128 == 1..(2 * WordBits)

\* ReadBits128, spill of more than 64 bits:
\* _fields[fieldIndex+1] << lastFieldBitsNeeded, a shift of a uint64.
MiddleField(field, lastFieldBitsNeeded) == Shl(field, lastFieldBitsNeeded)

\* BitReader::ReadBits128, called within the declared size (the ASSERTs hold).
ReadBits128 ==
    /\ brPc = "ready"
    /\ \E bitCount \in BitCounts128 :
         /\ brPosition + bitCount <= brSizeBits
         /\ LET fieldIndex    == brPosition \div WordBits
                bitsAvailable == ((fieldIndex + 1) * WordBits) - brPosition
                shift         == FieldShift(bitCount, bitsAvailable)
                bitsNeeded    == bitCount - bitsAvailable
                lastFieldBitsNeeded == bitsNeeded - WordBits
                spill         == IF bitsAvailable >= bitCount THEN 0
                                 ELSE IF bitsNeeded > WordBits THEN 2 ELSE 1
            IN \E field \in FieldReads(fieldIndex) :
               \E next \in (IF spill >= 1 THEN FieldReads(fieldIndex + 1)
                            ELSE { { } }) :
               \E last \in (IF spill = 2 THEN FieldReads(fieldIndex + 2)
                            ELSE { { } }) :
                 LET value0 == Shr(field, shift)
                     value  == CASE spill = 0 -> value0
                                 [] spill = 1 ->
                                      Shl128(value0, bitsNeeded)
                                          \cup Shr(next, SpillShift(bitsNeeded))
                                 [] spill = 2 ->
                                      Shl128(value0, bitsNeeded)
                                          \cup MiddleField(next, lastFieldBitsNeeded)
                                          \cup Shr(last, SpillShift(lastFieldBitsNeeded))
                 IN /\ brValue' = value \cap
                                      Shr128(AllOnes128, 2 * WordBits - bitCount)
                    /\ brTouched' = fieldIndex..(fieldIndex + spill)
         /\ brBitCount' = bitCount
         /\ brFrom' = brPosition
         /\ brPosition' = brPosition + bitCount
    /\ UNCHANGED << brPc, brFields, brSizeBits, brWritten,
                    queueVars, ioVars, rwVars, heapVars, fsVars, restVars >>

(***************************************************************************)
(* The shared path buffer _filePathBuffer: OpenPlotFile -> InitFileSet on  *)
(* a producer thread and CmdDeleteFile / CmdDeleteBucket on the            *)
(* dispatcher format a path into it and then hand it to Open or remove.    *)
(* The queue of this part is the one the constructor left: every temp      *)
(* stream open, the dispatcher running.  A sprintf is taken as one step.   *)
(***************************************************************************)
\* A stream that was never opened has no path.
NoPath == [ name |-> "none", bucket |-> -1 ]

\* The streams of a file set after InitFileSet, with the path each was
\* opened with.
OpenedStreams(id) ==
    [ i \in 1..BucketCountOf(id) |-> [ open |-> TRUE, path |-> PathOf(id, i - 1) ] ]

\* The path CmdDeleteFile / CmdDeleteBucket formats:
\* sprintf( basePath, "%s_%u.tmp", fileBuckets.name, bucket )
DeletePath(id, b) == TempPath(FileSetName(id), b)

\* OpenPlotFile -> InitFileSet( FileId::PLOT, fileName, 1 ), up to the
\* sprintf of the loop's only pass: the set gets a fresh stream and the plot
\* file's name is formatted into the path buffer.
PathOpenPlotFile ==
    /\ ~ptFatal
    /\ ptProd = "idle"
    /\ ptPlots < MaxPlots
    /\ ptPlots' = ptPlots + 1
    /\ ptStreams' = [ ptStreams EXCEPT !["PLOT"] =
                        << [ open |-> FALSE, path |-> NoPath ] >> ]
    /\ ptBuffer' = PathOf("PLOT", 0)
    /\ ptProd' = "formatted"
    /\ UNCHANGED << ptDisp, ptCmd, ptIdx, ptCmds, ptFsys, ptOpens, ptRemoves,
                    ptCalls, ptFatal >>
    /\ UNCHANGED << queueVars, ioVars, rwVars, heapVars, fsVars, bitVars, fvVars, rbVars, szVars, bvVars >>

\* InitFileSet: file.Open( pathBuffer, ... ) with what the path buffer holds
\* now; a failure ends in FatalIf( !didOpen ).  The rest of OpenPlotFile does
\* not touch the path buffer.
PathOpenPlotFileOpen ==
    /\ ~ptFatal
    /\ ptProd = "formatted"
    /\ ptOpens' = ptOpens \cup
           { [ formatted |-> PathOf("PLOT", 0), passed |-> ptBuffer ] }
    /\ \E ok \in BOOLEAN :
         IF ok
           THEN /\ ptStreams' = [ ptStreams EXCEPT !["PLOT"][1] =
                                    [ open |-> TRUE, path |-> ptBuffer ] ]
                /\ ptFsys' = ptFsys \cup { ptBuffer }
                /\ ptProd' = "idle"
                /\ UNCHANGED ptFatal
           ELSE /\ ptFatal' = TRUE
                /\ UNCHANGED << ptStreams, ptFsys, ptProd >>
    /\ UNCHANGED << ptBuffer, ptDisp, ptCmd, ptIdx, ptCmds, ptRemoves, ptCalls,
                    ptPlots >>
    /\ UNCHANGED << queueVars, ioVars, rwVars, heapVars, fsVars, bitVars, fvVars, rbVars, szVars, bvVars >>

\* DiskBufferQueue::DeleteFile( id, bucket ), then CommitCommands.
PathDeleteFile ==
    /\ ~ptFatal
    /\ ptProd = "idle"
    /\ ptCalls < MaxFsCmds
    /\ \E id \in FileIds : \E b \in { 0, BucketCountOf(id) - 1 } :
         /\ b < Len(ptStreams[id])
         /\ ptCmds' = Append(ptCmds, [ type |-> "DeleteFile", id |-> id,
                                       bucket |-> b ])
    /\ ptCalls' = ptCalls + 1
    /\ UNCHANGED << ptBuffer, ptProd, ptDisp, ptCmd, ptIdx, ptStreams, ptFsys,
                    ptOpens, ptRemoves, ptPlots, ptFatal >>
    /\ UNCHANGED << queueVars, ioVars, rwVars, heapVars, fsVars, bitVars, fvVars, rbVars, szVars, bvVars >>

\* DiskBufferQueue::DeleteBucket( id ), then CommitCommands.
PathDeleteBucket ==
    /\ ~ptFatal
    /\ ptProd = "idle"
    /\ ptCalls < MaxFsCmds
    /\ \E id \in FileIds :
         ptCmds' = Append(ptCmds, [ type |-> "DeleteBucket", id |-> id,
                                    bucket |-> 0 ])
    /\ ptCalls' = ptCalls + 1
    /\ UNCHANGED << ptBuffer, ptProd, ptDisp, ptCmd, ptIdx, ptStreams, ptFsys,
                    ptOpens, ptRemoves, ptPlots, ptFatal >>
    /\ UNCHANGED << queueVars, ioVars, rwVars, heapVars, fsVars, bitVars, fvVars, rbVars, szVars, bvVars >>

\* CmdDeleteFile up to its sprintf: the stream is closed and the path is
\* formatted into the path buffer.
PathCmdDeleteFile ==
    /\ ~ptFatal
    /\ ptDisp = "idle"
    /\ ptCmds # << >>
    /\ Head(ptCmds).type = "DeleteFile"
    /\ LET id == Head(ptCmds).id
           b  == Head(ptCmds).bucket
       IN  /\ ptStreams' = [ ptStreams EXCEPT ![id][b + 1].open = FALSE ]
           /\ ptBuffer' = DeletePath(id, b)
           /\ ptIdx' = b
    /\ ptCmd' = Head(ptCmds)
    /\ ptCmds' = Tail(ptCmds)
    /\ ptDisp' = "formatted"
    /\ UNCHANGED << ptProd, ptFsys, ptOpens, ptRemoves, ptCalls, ptPlots, ptFatal >>
    /\ UNCHANGED << queueVars, ioVars, rwVars, heapVars, fsVars, bitVars, fvVars, rbVars, szVars, bvVars >>

\* CmdDeleteBucket is entered:  i = 0.
PathCmdDeleteBucket ==
    /\ ~ptFatal
    /\ ptDisp = "idle"
    /\ ptCmds # << >>
    /\ Head(ptCmds).type = "DeleteBucket"
    /\ ptCmd' = Head(ptCmds)
    /\ ptCmds' = Tail(ptCmds)
    /\ ptIdx' = 0
    /\ ptDisp' = "loop"
    /\ UNCHANGED << ptBuffer, ptProd, ptStreams, ptFsys, ptOpens, ptRemoves,
                    ptCalls, ptPlots, ptFatal >>
    /\ UNCHANGED << queueVars, ioVars, rwVars, heapVars, fsVars, bitVars, fvVars, rbVars, szVars, bvVars >>

\* CmdDeleteBucket: the loop test, and the body up to its sprintf.
PathDeleteBucketFormat ==
    /\ ~ptFatal
    /\ ptDisp = "loop"
    /\ IF ptIdx < Len(ptStreams[ptCmd.id])
         THEN /\ ptStreams' = [ ptStreams EXCEPT ![ptCmd.id][ptIdx + 1].open = FALSE ]
              /\ ptBuffer' = DeletePath(ptCmd.id, ptIdx)
              /\ ptDisp' = "formatted"
         ELSE /\ ptDisp' = "idle"
              /\ UNCHANGED << ptStreams, ptBuffer >>
    /\ UNCHANGED << ptProd, ptCmd, ptIdx, ptCmds, ptFsys, ptOpens, ptRemoves,
                    ptCalls, ptPlots, ptFatal >>
    /\ UNCHANGED << queueVars, ioVars, rwVars, heapVars, fsVars, bitVars, fvVars, rbVars, szVars, bvVars >>

\* CmdDeleteFile / CmdDeleteBucket: remove( _filePathBuffer ) with what the
\* path buffer holds now; a failure is logged.
PathRemove ==
    /\ ~ptFatal
    /\ ptDisp = "formatted"
    /\ ptRemoves' = ptRemoves \cup
           { [ id        |-> ptCmd.id,
               bucket    |-> ptIdx,
               formatted |-> DeletePath(ptCmd.id, ptIdx),
               passed    |-> ptBuffer,
               backing   |-> ptStreams[ptCmd.id][ptIdx + 1].path ] }
    /\ \E ok \in BOOLEAN :
         /\ ok => ptBuffer \in ptFsys
         /\ ptFsys' = IF ok THEN ptFsys \ { ptBuffer } ELSE ptFsys
    /\ IF ptCmd.type = "DeleteBucket"
         THEN ptIdx' = ptIdx + 1 /\ ptDisp' = "loop"
         ELSE ptDisp' = "idle" /\ UNCHANGED ptIdx
    /\ UNCHANGED << ptBuffer, ptProd, ptCmd, ptCmds, ptStreams, ptOpens, ptCalls,
                    ptPlots, ptFatal >>
    /\ UNCHANGED << queueVars, ioVars, rwVars, heapVars, fsVars, bitVars, fvVars, rbVars, szVars, bvVars >>

(***************************************************************************)
(* SignalFence values.  An integer is the set of the positions of its set  *)
(* bits in two's complement, at the width of its type.                     *)
(***************************************************************************)
\* The uint32 values SignalFence( fence, value ) is called with:
\* 0, 1, 2^31 - 1, 2^31 and 2^32 - 1.
UInt32Values ==
    { { }, { 0 }, 0..(UInt32Bits - 2), { UInt32Bits - 1 }, 0..(UInt32Bits - 1) }

\* -1 in cmd->fence.value.
MinusOne == 0..(FenceValueBits - 1)

\* cmd.fence.value < 0
IsNegative(x) == (FenceValueBits - 1) \in x

\* The mutant widens the value as a signed 32-bit integer.
SignExtended(value) ==
    IF (UInt32Bits - 1) \in value
      THEN value \cup (UInt32Bits..(FenceValueBits - 1))
      ELSE value

\* cmd->fence.value = (int64)value: the uint32 is widened with zeros and
\* stored at the width of the field.
StoredFenceValue(value) == { b \in value : b < FenceValueBits }

\* (uint32)cmd.fence.value
ToUInt32(x) == { b \in x : b < UInt32Bits }

\* SignalFence( fence ), then CommitCommands.
SignalFenceNoValue ==
    /\ Len(fvCalls) < MaxCmds
    /\ fvCalls' = Append(fvCalls, [ withValue |-> FALSE, value |-> { } ])
    /\ fvCmds' = Append(fvCmds, [ type |-> "SignalFence", value |-> MinusOne ])
    /\ UNCHANGED fvSignals
    /\ UNCHANGED << queueVars, ioVars, rwVars, heapVars, fsVars, bitVars, pathVars, rbVars, szVars, bvVars >>

\* SignalFence( fence, value ), then CommitCommands.
SignalFenceValue ==
    /\ Len(fvCalls) < MaxCmds
    /\ \E value \in UInt32Values :
         /\ fvCalls' = Append(fvCalls, [ withValue |-> TRUE, value |-> value ])
         /\ fvCmds' = Append(fvCmds, [ type |-> "SignalFence",
                                       value |-> StoredFenceValue(value) ])
    /\ UNCHANGED fvSignals
    /\ UNCHANGED << queueVars, ioVars, rwVars, heapVars, fsVars, bitVars, pathVars, rbVars, szVars, bvVars >>

\* case Command::SignalFence, with the call it makes on the fence.
ExecuteSignalFenceCall ==
    /\ fvCmds # << >>
    /\ fvSignals' = Append(fvSignals,
           IF IsNegative(Head(fvCmds).value)
             THEN [ call |-> "Signal()", value |-> { } ]
             ELSE [ call |-> "Signal(value)", value |-> ToUInt32(Head(fvCmds).value) ])
    /\ fvCmds' = Tail(fvCmds)
    /\ UNCHANGED fvCalls
    /\ UNCHANGED << queueVars, ioVars, rwVars, heapVars, fsVars, bitVars, pathVars, rbVars, szVars, bvVars >>

(***************************************************************************)
(* Buffer commands: the commands that name a work-heap buffer, executed in *)
(* enqueue order, with the calls ExecuteCommand makes on the heap.         *)
(***************************************************************************)
Buffers == 1..MaxBuffers

BufferCommandTypes == { "WriteFile", "WriteBuckets", "ReadFile", "ReleaseBuffer" }

\* The mutant releases the buffer of every command once the command is done.
HeapReleasesAfterUse(cmd) == << cmd.buffer >>

\* The _workHeap.Release calls ExecuteCommand makes for a command: one in
\* case Command::ReleaseBuffer, none in the other cases.
HeapReleases(cmd) ==
    IF cmd.type = "ReleaseBuffer" THEN << cmd.buffer >> ELSE << >>

\* WriteFile / WriteBuckets / ReadFile / ReleaseBuffer on a buffer, then
\* CommitCommands.
EnqueueBufferCommand ==
    /\ Len(rbCmds) < MaxCmds
    /\ \E type \in BufferCommandTypes, buffer \in Buffers :
         rbCmds' = Append(rbCmds, [ type |-> type, buffer |-> buffer ])
    /\ UNCHANGED << rbRunning, rbDone, rbReleases >>
    /\ UNCHANGED << queueVars, ioVars, rwVars, heapVars, fsVars, bitVars, pathVars,
                    fvVars, szVars, bvVars >>

\* CommandMain hands the next command, in enqueue order, to ExecuteCommand.
BufferExecuteBegin ==
    /\ rbRunning = 0
    /\ rbDone < Len(rbCmds)
    /\ rbRunning' = rbDone + 1
    /\ UNCHANGED << rbCmds, rbDone, rbReleases >>
    /\ UNCHANGED << queueVars, ioVars, rwVars, heapVars, fsVars, bitVars, pathVars,
                    fvVars, szVars, bvVars >>

\* ExecuteCommand: the switch on cmd.type runs the command, and returns.
BufferExecuteCommand ==
    /\ rbRunning # 0
    /\ LET calls == HeapReleases(rbCmds[rbRunning]) IN
         rbReleases' = rbReleases \o
             [ c \in 1..Len(calls) |->
                 [ buffer |-> calls[c], during |-> rbRunning, finished |-> rbDone ] ]
    /\ rbDone' = rbDone + 1
    /\ rbRunning' = 0
    /\ UNCHANGED rbCmds
    /\ UNCHANGED << queueVars, ioVars, rwVars, heapVars, fsVars, bitVars, pathVars,
                    fvVars, szVars, bvVars >>

(***************************************************************************)
(* The sizes array of WriteBuckets: the producer owns the array, the       *)
(* command holds a pointer to it, the dispatcher reads it element by       *)
(* element when it executes the command.                                   *)
(***************************************************************************)
\* Values the producer stores in an element of its sizes array.
SizeChoices == { 0, BlockSize }

\* The producer stores a size in an element of its array.
StoreSize ==
    /\ \E i \in Buckets, s \in SizeChoices :
         /\ szArray[i] # s
         /\ szArray' = [ szArray EXCEPT ![i] = s ]
    /\ UNCHANGED << szCmd, szAtEnqueue, szBucket, szUsed >>
    /\ UNCHANGED << queueVars, ioVars, rwVars, heapVars, fsVars, bitVars, pathVars,
                    fvVars, rbVars, bvVars >>

\* WriteBuckets( id, buffers, sizes ), then CommitCommands:
\* cmd->buckets.sizes = sizes keeps the pointer.
WriteBucketsSizes ==
    /\ szCmd = "none"
    /\ szCmd' = "sizes"
    /\ szAtEnqueue' = szArray
    /\ UNCHANGED << szArray, szBucket, szUsed >>
    /\ UNCHANGED << queueVars, ioVars, rwVars, heapVars, fsVars, bitVars, pathVars,
                    fvVars, rbVars, bvVars >>

\* CmdWriteBuckets, one pass of the loop: bufferSize = sizes[i], read through
\* the pointer of the command.
CmdWriteBucketsReadSize ==
    /\ szCmd = "sizes"
    /\ szBucket < BucketCount
    /\ szUsed' = Append(szUsed, szArray[szBucket])
    /\ szBucket' = szBucket + 1
    /\ UNCHANGED << szArray, szCmd, szAtEnqueue >>
    /\ UNCHANGED << queueVars, ioVars, rwVars, heapVars, fsVars, bitVars, pathVars,
                    fvVars, rbVars, bvVars >>

(***************************************************************************)
(* BitViewT< _EntrySize >: entries of _EntrySize bits packed into uint64   *)
(* words, entry 0 at the low bits of word 0.                               *)
(***************************************************************************)
\* _EntrySize of the views of the model: 4 divides the word, 5 does not.
EntrySizes == { 4, 5 }

\* The buffers a view is built over.
BitViewBuffers == { << AllOnes, AllOnes >>, << { }, { } >>, << FieldA, FieldX >> }

\* The values Set is called with.
BitViewValues == { { }, AllOnes }

\* _EntryBits: ( 1ull << _EntrySize ) - 1
EntryBits(entrySize) == 0..(entrySize - 1)

\* _InvEntryBits: ~_EntryBits
InvEntryBits(entrySize) == Bits \ EntryBits(entrySize)

\* GetWordIndex: ( entryIndex * _EntrySize ) / 64
GetWordIndex(entrySize, entryIndex) == (entryIndex * entrySize) \div WordBits

\* The indices that pass ASSERT( index * _EntrySize + _EntrySize <= _size * 64 ).
EntryIndices(fields, entrySize) ==
    { i \in 0..(WordBits * Len(fields)) :
        i * entrySize + entrySize <= WordBits * Len(fields) }

\* BitViewT::Get( index ); word w of _fields is fields[w + 1].
Get(fields, entrySize, index) ==
    LET wordIdx  == GetWordIndex(entrySize, index)
        bitStart == index * entrySize - wordIdx * WordBits
        bitCount == WordBits - bitStart
        low      == Shr(fields[wordIdx + 1], bitStart)
        value    == IF bitCount < entrySize
                      THEN low \cup Shl(fields[wordIdx + 2], bitCount)
                      ELSE low
    IN  value \cap EntryBits(entrySize)

\* BitViewT::Set( index, value ): the words of _fields after the call.
Set(fields, entrySize, index, value) ==
    LET wordIdx  == GetWordIndex(entrySize, index)
        bitStart == index * entrySize - wordIdx * WordBits
        bitCount == WordBits - bitStart
        first    == (fields[wordIdx + 1] \cap (Bits \ Shl(EntryBits(entrySize), bitStart)))
                      \cup Shl(value \cap EntryBits(entrySize), bitStart)
        second   == (fields[wordIdx + 2] \cap Shr(InvEntryBits(entrySize), bitCount))
                      \cup Shr(value \cap EntryBits(entrySize), bitCount)
    IN  [ w \in DOMAIN fields |->
            IF w = wordIdx + 1 THEN first
            ELSE IF w = wordIdx + 2 /\ bitCount < entrySize THEN second
            ELSE fields[w] ]

\* BitViewT< _EntrySize >( buffer, size )
BitViewNew ==
    /\ bvEntrySize = 0
    /\ \E entrySize \in EntrySizes, buffer \in BitViewBuffers :
         /\ bvEntrySize' = entrySize
         /\ bvFields' = buffer
         /\ bvBefore' = buffer
    /\ UNCHANGED << bvIndex, bvValue, bvSets >>
    /\ UNCHANGED << queueVars, ioVars, rwVars, heapVars, fsVars, bitVars, pathVars,
                    fvVars, rbVars, szVars >>

\* A call of Set( index, value ) with an index in range.
BitViewSet ==
    /\ bvEntrySize # 0
    /\ bvSets < MaxSets
    /\ \E index \in EntryIndices(bvFields, bvEntrySize), value \in BitViewValues :
         /\ bvFields' = Set(bvFields, bvEntrySize, index, value)
         /\ bvIndex' = index
         /\ bvValue' = value
    /\ bvBefore' = bvFields
    /\ bvSets' = bvSets + 1
    /\ UNCHANGED bvEntrySize
    /\ UNCHANGED << queueVars, ioVars, rwVars, heapVars, fsVars, bitVars, pathVars,
                    fvVars, rbVars, szVars >>

(***************************************************************************)
(* Initial states and specifications.                                      *)
(***************************************************************************)
\* The queue after its constructor: empty ring, dispatcher thread started.
InitQueue ==
    /\ issued = << >>
    /\ ring = << >>
    /\ committedCount = 0
    /\ publishedCount = 0
    /\ ppc = "idle"
    /\ ptype = "none"
    /\ waitLog = 0
    /\ cmdReadySignal = FALSE
    /\ cmdConsumedSignal = FALSE
    /\ dpc = "waitReady"
    /\ commands = << >>
    /\ di = 1
    /\ running = 0
    /\ started = << >>
    /\ executed = << >>
    /\ fenceValue = 0
    /\ fenceSignaled = FALSE
    /\ file = << >>
    /\ wpc = "waiting"

\* The file set after InitFileSet: every stream created empty (FileMode::Create),
\* the scratch block freshly allocated.
InitStreams ==
    /\ streams = [ b \in Buckets |-> [ data |-> << >>, pos |-> 0 ] ]
    /\ blockBuffer = [ i \in 1..BlockSize |-> 0 ]
    /\ bucket = 0
    /\ bucketBuffer = 0
    /\ wstream = 0
    /\ wsize = 0
    /\ wbuffer = 0
    /\ wremainder = 0
    /\ lastRet = 1
    /\ shortWrites = 0

\* The read-back part at rest.
InitReadBack ==
    /\ dst = [ b \in Buckets |-> << >> ]
    /\ rstream = 0
    /\ rsize = 0
    /\ rbuffer = 0
    /\ lastRead = 1
    /\ seekFailed = FALSE

\* The work heap after construction: all of it free.
InitHeap ==
    /\ heapFree = HeapAddrs
    /\ heapPending = { }
    /\ owned = { }
    /\ releaseCmds = << >>
    /\ allocCount = 0

\* The file-set part when the constructor starts on an empty work directory.
InitFiles ==
    /\ fsPc = "ctor"
    /\ ctorIdx = 1
    /\ initId = "Y0"
    /\ initIdx = 0
    /\ initCaller = "ctor"
    /\ fileSets = [ id \in FileIds |-> << >> ]
    /\ fsys = { }
    /\ fsBlockSize = 0
    /\ fsBlockBuffer = FALSE
    /\ fsLog = { }
    /\ fsFatal = "none"
    /\ didOpen = "none"
    /\ dispRunning = FALSE
    /\ fsCmds = << >>
    /\ fsCallCount = 0
    /\ mutations = { }
    /\ deleted = [ id \in FileIds |-> "none" ]
    /\ reopened = { }
    /\ restarts = 0
    /\ plotCalls = 0
    /\ plotMemoSize = 0
    /\ plotHeaderSize = 0
    /\ plotTablesPointers = 0
    /\ plotHeaderBuffer = << >>
    /\ plotHeaderCap = 0
    /\ headersBuilt = 0
    /\ plotWritesEnqueued = 0
    /\ plotWritesDone = 0
    /\ plotFile = << >>

\* The path buffer part after the constructor: every temp stream is open
\* under the path InitFileSet formatted for it.
InitPath ==
    /\ ptBuffer = PathOf(ConstructorSets[Len(ConstructorSets)],
                         BucketCountOf(ConstructorSets[Len(ConstructorSets)]) - 1)
    /\ ptProd = "idle"
    /\ ptDisp = "idle"
    /\ ptCmd = [ type |-> "none", id |-> "none", bucket |-> 0 ]
    /\ ptIdx = 0
    /\ ptCmds = << >>
    /\ ptStreams = [ id \in FileIds |->
                       IF id = "PLOT" THEN << >> ELSE OpenedStreams(id) ]
    /\ ptFsys = UNION { { PathOf(id, i) : i \in 0..(BucketCountOf(id) - 1) }
                        : id \in FileIds \ { "PLOT" } }
    /\ ptOpens = { }
    /\ ptRemoves = { }
    /\ ptCalls = 0
    /\ ptPlots = 0
    /\ ptFatal = FALSE

\* No SignalFence call was made yet.
InitFenceValue ==
    /\ fvCalls = << >>
    /\ fvCmds = << >>
    /\ fvSignals = << >>

\* No buffer command was enqueued yet.
InitBufferCommands ==
    /\ rbCmds = << >>
    /\ rbRunning = 0
    /\ rbDone = 0
    /\ rbReleases = << >>

\* The producer's sizes array before it is filled; no WriteBuckets yet.
InitSizes ==
    /\ szArray = [ i \in Buckets |-> 0 ]
    /\ szCmd = "none"
    /\ szAtEnqueue = [ i \in Buckets |-> 0 ]
    /\ szBucket = 0
    /\ szUsed = << >>

\* No BitViewT was built yet.
InitBitView ==
    /\ bvEntrySize = 0
    /\ bvFields = << >>
    /\ bvBefore = << >>
    /\ bvIndex = 0
    /\ bvValue = { }
    /\ bvSets = 0

\* The parts added last, before their first step.
InitRest ==
    /\ InitPath
    /\ InitFenceValue
    /\ InitBufferCommands
    /\ InitSizes
    /\ InitBitView

\* No BitReader: the BitReader part stands still.
InitNoBits ==
    /\ brPc = "none"
    /\ brFields = << >>
    /\ brSizeBits = 0
    /\ brPosition = 0
    /\ brWritten = << >>
    /\ brBitCount = 0
    /\ brValue = { }
    /\ brFrom = 0
    /\ brTouched = { }
    /\ InitRest

\* No script: the read-back part stands still.
InitNoScript ==
    /\ script = << >>
    /\ sidx = 0
    /\ InitReadBack
    /\ InitHeap
    /\ InitFiles
    /\ InitNoBits

\* Queue part: the I/O part stands still.
Init ==
    /\ InitQueue
    /\ InitNoScript
    /\ wv \in 1..MaxWaitValue
    /\ InitStreams
    /\ useDirectIO = FALSE
    /\ ioCmd = [ type |-> "WriteFile", bucket |-> 0, size |-> 0, sizes |-> << >> ]
    /\ iopc = "idle"

\* I/O part: one command about to be executed; the queue part stands still.
InitIO ==
    /\ InitQueue
    /\ InitNoScript
    /\ wv = 1
    /\ InitStreams
    /\ useDirectIO \in BOOLEAN
    /\ ioCmd \in IOCommands
    /\ iopc = "execute"

ProducerCall == \E type \in CommandTypes : GetCommandObject(type)

Next ==
    \/ ProducerCall
    \/ WaitCmdConsumed
    \/ FillCommand
    \/ CommitCommands
    \/ SignalCmdReady
    \/ WaitCmdReady
    \/ DequeueCommands
    \/ SignalCmdConsumed
    \/ ExecuteBegin
    \/ ExecuteWriteFile
    \/ ExecuteSignalFence
    \/ ExecuteWaitForFence
    \/ FenceWaitReturn
    \/ FenceSignalByThread

NextIO ==
    \/ CndWriteFile
    \/ CmdWriteBuckets
    \/ WriteBucket
    \/ WriteLoop
    \/ WriteLoopDone
    \/ WriteRemainderBlock

Spec == Init /\ [][Next]_vars

SpecIO == InitIO /\ [][NextIO]_vars

\* Read-back part: a script of commands executed one after the other.
InitRW ==
    /\ InitQueue
    /\ wv = 1
    /\ InitStreams
    /\ InitReadBack
    /\ InitHeap
    /\ InitFiles
    /\ InitNoBits
    /\ useDirectIO \in BOOLEAN
    /\ script \in Scripts
    /\ sidx = 1
    /\ ioCmd = script[1]
    /\ iopc = "execute"

NextRW ==
    \/ CndWriteFile
    \/ CmdWriteBuckets
    \/ WriteBucket
    \/ WriteLoop
    \/ WriteLoopDone
    \/ WriteRemainderBlock
    \/ CmdSeekFile
    \/ CmdSeekBucket
    \/ CmdReadFile
    \/ ReadLoop
    \/ ReadLoopDone
    \/ NextCommand

SpecRW == InitRW /\ [][NextRW]_vars

\* Work heap part: the other parts stand still.
NextHeap ==
    \/ Allocate
    \/ AllocateDrain
    \/ ReleaseBuffer
    \/ ExecuteReleaseBuffer
    \/ CompletePendingReleases

SpecHeap == Init /\ [][NextHeap]_vars

\* File-set part: the constructor runs on a producer thread and starts the
\* dispatcher; the other parts stand still.
InitFS ==
    /\ InitQueue
    /\ wv = 1
    /\ InitStreams
    /\ InitNoScript
    /\ useDirectIO \in BOOLEAN
    /\ ioCmd = [ type |-> "WriteFile", bucket |-> 0, size |-> 0, sizes |-> << >> ]
    /\ iopc = "idle"

\* The constructor, then OpenPlotFile calls and the dispatcher writing the
\* plot header.
NextFS ==
    \/ CtorInitFileSet
    \/ CtorRunDispatcher
    \/ InitFileSetOpen
    \/ InitFileSetReturn
    \/ OpenPlotFile
    \/ OpenPlotFileHeader
    \/ CndWritePlotHeader

SpecFS == InitFS /\ [][NextFS]_vars

\* The constructor, then DeleteFile and DeleteBucket calls and the dispatcher
\* executing them, and queues constructed again on the same work directory.
NextDel ==
    \/ CtorInitFileSet
    \/ CtorRunDispatcher
    \/ InitFileSetOpen
    \/ InitFileSetReturn
    \/ DeleteBucket
    \/ DeleteFile
    \/ CmdDeleteBucket
    \/ CmdDeleteFile
    \/ Reconstruct

SpecDel == InitFS /\ [][NextDel]_vars

\* Path buffer part: OpenPlotFile calls on a producer thread, delete commands
\* executed by the dispatcher; the other parts stand still.
NextPath ==
    \/ PathOpenPlotFile
    \/ PathOpenPlotFileOpen
    \/ PathDeleteFile
    \/ PathDeleteBucket
    \/ PathCmdDeleteFile
    \/ PathCmdDeleteBucket
    \/ PathDeleteBucketFormat
    \/ PathRemove

SpecPath == Init /\ [][NextPath]_vars

\* SignalFence values: the other parts stand still.
NextFenceValue ==
    \/ SignalFenceNoValue
    \/ SignalFenceValue
    \/ ExecuteSignalFenceCall

SpecFenceValue == Init /\ [][NextFenceValue]_vars

\* Buffer commands: the other parts stand still.
NextBufferCommands ==
    \/ EnqueueBufferCommand
    \/ BufferExecuteBegin
    \/ BufferExecuteCommand

SpecBufferCommands == Init /\ [][NextBufferCommands]_vars

\* The sizes array of WriteBuckets: the other parts stand still.
NextSizes ==
    \/ StoreSize
    \/ WriteBucketsSizes
    \/ CmdWriteBucketsReadSize

SpecSizes == Init /\ [][NextSizes]_vars

\* BitViewT: the other parts stand still.
NextBitView ==
    \/ BitViewNew
    \/ BitViewSet

SpecBitView == Init /\ [][NextBitView]_vars

\* BitReader part: a buffer of big-endian fields, whole ones or one field of
\* which the sizeBits most significant bits are used; the other parts stand
\* still.
InitBits ==
    /\ InitQueue
    /\ wv = 1
    /\ InitStreams
    /\ script = << >>
    /\ sidx = 0
    /\ InitReadBack
    /\ InitHeap
    /\ InitFiles
    /\ useDirectIO = FALSE
    /\ ioCmd = [ type |-> "WriteFile", bucket |-> 0, size |-> 0, sizes |-> << >> ]
    /\ iopc = "idle"
    /\ brPc = "buffer"
    /\ \/ /\ brWritten \in WholeBuffers
          /\ brSizeBits = WordBits * Len(brWritten)
       \/ /\ brSizeBits \in 1..(WordBits - 1)
          /\ \E f \in FieldValues : brWritten = << LeftJustified(f, brSizeBits) >>
    /\ brFields = [ i \in DOMAIN brWritten |-> LoadLE(BytesBE(brWritten[i])) ]
    /\ brPosition = 0
    /\ brBitCount = 0
    /\ brValue = { }
    /\ brFrom = 0
    /\ brTouched = { }
    /\ InitRest

NextBits ==
    \/ BitReaderNew
    \/ ReadBits64

SpecBits == InitBits /\ [][NextBits]_vars

\* Buffers of whole fields read with ReadBits128.
WholeBuffers128 == { << FieldA, FieldB, FieldX >>, << FieldX, FieldB >> }

\* BitReader part, ReadBits128: a buffer of whole big-endian fields.
InitBits128 ==
    /\ InitQueue
    /\ wv = 1
    /\ InitStreams
    /\ script = << >>
    /\ sidx = 0
    /\ InitReadBack
    /\ InitHeap
    /\ InitFiles
    /\ useDirectIO = FALSE
    /\ ioCmd = [ type |-> "WriteFile", bucket |-> 0, size |-> 0, sizes |-> << >> ]
    /\ iopc = "idle"
    /\ brPc = "buffer"
    /\ brWritten \in WholeBuffers128
    /\ brSizeBits = WordBits * Len(brWritten)
    /\ brFields = [ i \in DOMAIN brWritten |-> LoadLE(BytesBE(brWritten[i])) ]
    /\ brPosition = 0
    /\ brBitCount = 0
    /\ brValue = { }
    /\ brFrom = 0
    /\ brTouched = { }
    /\ InitRest

NextBits128 ==
    \/ BitReaderNew
    \/ ReadBits128

SpecBits128 == InitBits128 /\ [][NextBits128]_vars

(***************************************************************************)
(* Fairness: every thread that can take a step of the code it is in        *)
(* eventually takes it.  Starting a new public call, calling               *)
(* CommitCommands and signaling a fence from another thread are the        *)
(* callers' choices and carry no fairness.                                 *)
(***************************************************************************)
ProducerRetry == ppc = "retry" /\ GetCommandObject(ptype)

\* The producer inside a public call, and the dispatcher, are sequential
\* threads: at most one of a thread's steps is enabled at a time.
ProducerStep ==
    \/ ProducerRetry
    \/ WaitCmdConsumed
    \/ FillCommand
    \/ SignalCmdReady

DispatcherStep ==
    \/ WaitCmdReady
    \/ DequeueCommands
    \/ SignalCmdConsumed
    \/ ExecuteBegin
    \/ ExecuteWriteFile
    \/ ExecuteSignalFence
    \/ ExecuteWaitForFence

Fairness ==
    /\ WF_vars(ProducerStep)
    /\ WF_vars(DispatcherStep)
    /\ WF_vars(FenceWaitReturn)

FairSpec == Init /\ [][Next]_vars /\ Fairness

(***************************************************************************)
(* Vocabulary of the claims about the queue.                               *)
(***************************************************************************)
Range(s) == { s[i] : i \in 1..Len(s) }
Iota(n) == [ i \in 1..n |-> i ]

Enqueued(k)  == k <= Len(issued) /\ issued[k].filled
Published(k) == k <= publishedCount
Executed(k)  == k \in Range(executed)
PriorExecuted(k) == \A j \in 1..(k - 1) : Executed(j)

\* WriteFile payloads among the first n commands, in enqueue order.
PayloadsBefore(n) ==
    SelectSeq(Iota(n), LAMBDA j : issued[j].type = "WriteFile")

IsPrefix(s, t) == Len(s) <= Len(t) /\ SubSeq(t, 1, Len(s)) = s

\* The WaitForFence commands up to k that have not returned yet.
WaitsAhead(k) ==
    { j \in 1..k : j <= Len(issued) /\ issued[j].type = "WaitForFence" /\ ~Executed(j) }

NoUnsignaledWaitAhead(k) ==
    \/ WaitsAhead(k) = {}
    \/ Cardinality(WaitsAhead(k)) = 1 /\ fenceSignaled

\* C1: the dispatcher enters ExecuteCommand for the commands in exactly their
\* enqueue order, 1, 2, 3, ..., and enters it for a command only after the
\* previous one returned, also across dequeue batches.
C1_ExecutesInEnqueueOrder ==
    /\ started = Iota(Len(started))
    /\ executed = Iota(Len(executed))
    /\ Len(started) = Len(executed) + (IF running = 0 THEN 0 ELSE 1)
    /\ running # 0 => running = Len(started)

\* A command of a later batch is inside ExecuteCommand after a whole batch
\* has been executed.
C1_Witness ==
    /\ Len(executed) >= CMD_BUF_SIZE
    /\ running # 0

\* C2: whatever the dispatcher holds or has executed was published by a
\* CommitCommands and had all its fields written before; the slots still
\* unpublished are exactly the ones reserved since the last commit, and a
\* commit publishes all of them together.
C2_OnlyPublishedCommandsRun ==
    /\ \A k \in Range(commands) \cup Range(started) :
           Published(k) /\ issued[k].filled
    /\ \A i \in 1..Len(ring) : (i > committedCount) <=> ~Published(ring[i])
    /\ ppc = "signal" => committedCount = Len(ring)

C2_Witness ==
    /\ dpc = "executing"
    /\ Len(ring) > committedCount
    /\ ppc = "fill"

C4_FenceWaitReturns_Enqueued ==
    \A k \in 1..MaxCmds :
        ( /\ Enqueued(k)
          /\ issued[k].type = "SignalFence"
          /\ issued[k].value = wv
          /\ PriorExecuted(k)
          /\ wpc = "waiting" )
        ~> (wpc = "returned" \/ ~Alive)

\* C4 (amended): once SignalFence( f, v ) is enqueued and published by
\* CommitCommands and everything before it has completed, a thread blocked
\* in f.Wait( v ) eventually returns (unless the process aborts).
C4_FenceWaitReturns ==
    \A k \in 1..MaxCmds :
        ( /\ Enqueued(k)
          /\ Published(k)
          /\ issued[k].type = "SignalFence"
          /\ issued[k].value = wv
          /\ PriorExecuted(k)
          /\ wpc = "waiting" )
        ~> (wpc = "returned" \/ ~Alive)

C4_Witness ==
    /\ wpc = "returned"
    /\ \E k \in Range(executed) : issued[k].type = "SignalFence" /\ issued[k].value = wv

\* C5: every command published by CommitCommands is eventually executed,
\* provided no WaitForFence up to it is left unsignaled and the process does
\* not abort.
C5_PublishedIsExecuted ==
    \A k \in 1..MaxCmds :
        (Published(k) /\ NoUnsignaledWaitAhead(k)) ~> (Executed(k) \/ ~Alive)

\* A commit landed after the dispatcher found the ring empty and before it
\* waits again, and its command got executed.
C5_Witness ==
    /\ Len(executed) >= 2
    /\ dpc = "waitReady"
    /\ cmdReadySignal
    /\ committedCount > 0

\* C6: a producer blocked on a full ring when the dispatcher dequeues a
\* batch obtains a slot (unless the process aborts).
C6_BlockedProducerGetsSlot ==
    (ppc = "wait" /\ dpc = "signalConsumed") ~> (ppc = "fill" \/ ~Alive)

\* The producer found the ring full, waited, and then reserved its slot.
C6_Witness ==
    /\ ppc = "fill"
    /\ waitLog >= 1
    /\ Len(issued) > RingCapacity

\* C7: a producer that fills the ring without calling CommitCommands and
\* blocks in the next reservation eventually gets its slot.
C7_UncommittedProducerContinues ==
    (ppc = "wait" /\ publishedCount = 0 /\ Len(ring) = RingCapacity)
        ~> (ppc = "fill")

(***************************************************************************)
(* Vocabulary of the claims about the I/O part.                            *)
(***************************************************************************)
CeilDiv(a, b) == (a + b - 1) \div b
Written(b) == streams[b].data

\* C8: in direct-I/O mode a WriteFile of s bytes makes the file grow by
\* exactly ceil( s / block ) * block bytes, the first s of them the
\* producer's bytes and the rest zero, whatever positive counts the stream's
\* writes return.
C8_DirectWriteFileGrowsByBlocks ==
    (iopc = "done" /\ ioCmd.type = "WriteFile" /\ useDirectIO) =>
        LET d == Written(ioCmd.bucket)
            s == ioCmd.size
        IN  /\ Len(d) = CeilDiv(s, BlockSize) * BlockSize
            /\ \A i \in 1..s : d[i] = Buf(i - 1)
            /\ \A i \in (s + 1)..Len(d) : d[i] = 0

\* C9: in buffered mode a WriteFile of s bytes keeps writing the remaining
\* tail after every short write, so that on completion the file has grown by
\* exactly the s bytes of the producer's buffer; a return below 1 ends in
\* Fatal instead of another pass of the loop.
C9_BufferedWriteFileWritesAll ==
    (ioCmd.type = "WriteFile" /\ ~useDirectIO) =>
        LET d == Written(ioCmd.bucket)
            s == ioCmd.size
        IN  /\ iopc = "write" => /\ d = BufBytes(0, s - wsize)
                                 /\ wbuffer = s - wsize
            /\ iopc = "done" => d = BufBytes(0, s)
            /\ iopc = "fatal" <=> lastRet < 1
            /\ \A b \in Buckets \ { ioCmd.bucket } : Written(b) = << >>

C9_Witness ==
    /\ iopc = "done"
    /\ ioCmd.type = "WriteFile"
    /\ ~useDirectIO
    /\ ioCmd.size = MaxSize
    /\ shortWrites >= 2

\* C10 (as stated): in direct-I/O mode WriteBuckets makes stream i grow by
\* the block-aligned part of sizes[i] plus one scratch block when sizes[i] is
\* not a block multiple.
C10_WriteBucketsGrowsWithRemainderBlock ==
    (iopc = "done" /\ ioCmd.type = "WriteBuckets" /\ useDirectIO) =>
        \A b \in Buckets :
            Len(Written(b)) =
                (SizeOfBucket(b) \div BlockSize) * BlockSize
                + (IF SizeOfBucket(b) % BlockSize # 0 THEN BlockSize ELSE 0)

\* C10 (amended): in direct-I/O mode WriteBuckets makes stream i grow by
\* exactly the block-aligned part of sizes[i], floor( sizes[i] / B ) * B; no
\* scratch block is written.  For sizes [B+1, B, 0, 2B] the streams grow by
\* B, B, 0 and 2B (4096, 4096, 0, 8192 for B = 4096 and 4100, 4096, 0, 8192).
C10_WriteBucketsGrowsByAlignedPart ==
    (iopc = "done" /\ ioCmd.type = "WriteBuckets" /\ useDirectIO) =>
        /\ \A b \in Buckets :
               Len(Written(b)) = (SizeOfBucket(b) \div BlockSize) * BlockSize
        /\ blockBuffer = [ i \in 1..BlockSize |-> 0 ]
        /\ ioCmd.sizes = << BlockSize + 1, BlockSize, 0, 2 * BlockSize >> =>
               /\ Len(Written(0)) = BlockSize
               /\ Len(Written(1)) = BlockSize
               /\ Len(Written(2)) = 0
               /\ Len(Written(3)) = 2 * BlockSize

C10_Witness ==
    /\ iopc = "done"
    /\ ioCmd.type = "WriteBuckets"
    /\ useDirectIO
    /\ ioCmd.sizes = << BlockSize + 1, BlockSize, 0, 2 * BlockSize >>
    /\ Len(Written(0)) = BlockSize

(***************************************************************************)
(* Vocabulary of the claims about reading back.                            *)
(***************************************************************************)
ScriptDone     == iopc = "done" /\ sidx = Len(script)
IsBucketScript == script # << >> /\ script[1].type = "WriteBuckets"
IsFileScript   == script # << >> /\ script[1].type = "SeekFile"

\* A FileStream call reported an error of the device.
DeviceError == lastRet < 1 \/ lastRead < 0 \/ seekFailed

\* Where the producer placed bucket i (counted from 0) in the input buffer:
\* buckets follow each other, in direct mode each on a block boundary.
RECURSIVE BucketInputOffset(_, _)
BucketInputOffset(sz, i) ==
    IF i = 0 THEN 0
    ELSE BucketInputOffset(sz, i - 1)
         + (IF useDirectIO THEN CeilDiv(sz[i], BlockSize) * BlockSize ELSE sz[i])

\* dst_i[0..sizes[i]) holds bucket i's bytes of the input, for every bucket.
BucketsRecovered ==
    LET sz == script[1].sizes
    IN  \A b \in Buckets :
            /\ Len(dst[b]) >= sz[b + 1]
            /\ SubSeq(dst[b], 1, sz[b + 1])
                   = BufBytes(BucketInputOffset(sz, b), sz[b + 1])

\* C11 (as stated): WriteBuckets; SeekBucket( 0, Begin ); ReadFile of
\* sizes[i] for each bucket i runs to the end (no abort but for a device
\* error) and recovers every bucket's bytes, in buffered and in direct mode,
\* block multiples or not.
C11_BucketsReadBack_AnySize ==
    IsBucketScript =>
        /\ ScriptDone => BucketsRecovered
        /\ iopc = "fatal" => DeviceError

\* C11 (amended): WriteBuckets; SeekBucket( 0, Begin ); ReadFile of sizes[i]
\* for each bucket i runs to the end (no abort but for a device error) and
\* recovers every bucket's bytes in buffered mode, and in direct mode when
\* every sizes[i] is a multiple of the block size.
C11_BucketsReadBack ==
    (/\ IsBucketScript
     /\ \/ ~useDirectIO
        \/ \A i \in 1..BucketCount : script[1].sizes[i] % BlockSize = 0) =>
        /\ ScriptDone => BucketsRecovered
        /\ iopc = "fatal" => DeviceError

C11_Witness ==
    /\ IsBucketScript
    /\ ScriptDone
    /\ useDirectIO
    /\ script[1].sizes[1] = MaxSize
    /\ script[1].sizes[2] = BlockSize
    /\ dst[0] = BufBytes(0, MaxSize)
    /\ dst[1] = BufBytes(MaxSize, BlockSize)

\* C12: SeekFile to an offset, WriteFile of s bytes, SeekFile back to the
\* offset, ReadFile of s bytes: the read returns the original bytes (in
\* direct mode as the first s of the ceil( s / block ) * block bytes read)
\* and the read aborts for nothing but a device error.
C12_WriteThenReadRecovers ==
    IsFileScript =>
        LET b == script[2].bucket
            s == script[2].size
        IN  /\ ScriptDone =>
                /\ Len(dst[b]) = ReadSize(s)
                /\ SubSeq(dst[b], 1, s) = BufBytes(0, s)
            /\ (iopc = "fatal" /\ sidx = 4) => lastRead < 0

(***************************************************************************)
(* Vocabulary of the claim about the work heap.                            *)
(***************************************************************************)
\* Buffers between the return of Allocate and the dispatcher's Release.
LiveBuffers == owned \cup Range(releaseCmds)

\* C13: whatever the sequence of Allocate calls, ReleaseBuffer commands
\* executed by the dispatcher and CompletePendingReleases calls, no two live
\* buffers overlap, and no live byte is free or announced as released.
C13_LiveBuffersDisjoint ==
    /\ \A b1, b2 \in LiveBuffers :
           b1.id # b2.id => Region(b1) \cap Region(b2) = { }
    /\ \A b \in LiveBuffers : Region(b) \cap (heapFree \cup PendingBytes) = { }

C13_Witness ==
    /\ Cardinality(LiveBuffers) >= 2
    /\ \E b \in owned : b.id = MaxAllocs
    /\ releaseCmds # << >>

(***************************************************************************)
(* Vocabulary of the claims about file sets and the plot header.           *)
(***************************************************************************)
\* be16( x ): the two bytes of x, most significant first.
Be16(x) == << x \div 256, x % 256 >>

\* magic || plot_id || k || be16( len( fmt_desc ) ) || fmt_desc
\*       || be16( memo_size ) || memo
ExpectedHeader(memoSize) ==
    kPOSMagic \o PlotIdBytes \o << K >> \o Be16(FormatLen) \o kFormatDescription
    \o Be16(memoSize) \o MemoBytes(memoSize)

\* The open streams of a file set.
OpenStreams(id) == { i \in 1..Len(fileSets[id]) : fileSets[id][i].open }

\* C14: OpenPlotFile builds magic || plot_id || k || be16( len( fmt_desc ) )
\* || fmt_desc || be16( memo_size ) || memo || 80 table-pointer bytes, sets
\* _plotHeaderSize to the total length and _plotTablesPointers to
\* _plotHeaderSize - 80, enqueues exactly one WriteFile for it, and once the
\* dispatcher has executed the writes the first _plotHeaderSize bytes of the
\* plot file are that sequence.
C14_PlotHeaderWritten ==
    (FsAlive /\ fsPc = "idle" /\ headersBuilt >= 1) =>
        LET expected == ExpectedHeader(plotMemoSize)
        IN  /\ plotHeaderSize = Len(expected) + TablePointersLen
            /\ plotTablesPointers = plotHeaderSize - TablePointersLen
            /\ Len(plotHeaderBuffer) >= plotHeaderSize
            /\ SubSeq(plotHeaderBuffer, 1, plotTablesPointers) = expected
            /\ plotWritesEnqueued = headersBuilt
            /\ plotWritesDone = plotWritesEnqueued =>
                   /\ Len(plotFile) >= plotHeaderSize
                   /\ SubSeq(plotFile, 1, plotTablesPointers) = expected

PlotOpenFailureLogged ==
    \E l \in fsLog : l.msg = "Failed to open plot file" /\ l.id = "PLOT"

DeleteFailureLogged(id, i) ==
    \E l \in fsLog : l.msg = "Failed to delete file" /\ l.id = id /\ l.bucket = i

C18_OnlyDispatcherMutatesStreams ==
    \A m \in mutations : m.thread = "dispatcher"

\* C18 (amended): once the dispatcher runs, streams are written and closed
\* by the dispatcher thread only; the one public operation that touches a
\* stream on the producer's thread is OpenPlotFile, which replaces and opens
\* the PLOT stream through InitFileSet.
C18_OnlyOpenPlotFileMutatesOffDispatcher ==
    \A m \in mutations :
        \/ m.thread = "dispatcher"
        \/ (m.thread = "producer" /\ m.op = "OpenPlotFile" /\ m.id = "PLOT")

C18_Witness ==
    /\ Mutation("producer", "OpenPlotFile", "PLOT") \in mutations
    /\ Mutation("dispatcher", "WriteFile", "PLOT") \in mutations

(***************************************************************************)
(* BitReader claims.                                                       *)
(***************************************************************************)
\* The bitCount bits of the big-endian bit stream written to the buffer that
\* start at position from, most significant first, as a value.
StreamBits(from, bitCount) ==
    { bitCount - 1 - k : k \in { x \in 0..(bitCount - 1) :
        (WordBits - 1 - ((from + x) % WordBits))
            \in brWritten[((from + x) \div WordBits) + 1] } }

\* The n-bit value written left-justified into a field.
ValueWritten(f, n) == Shr(f, WordBits - n)

WholeFields == brSizeBits % WordBits = 0

\* C19: a BitReader constructed with sizeBits = n in 1..64 over a buffer in
\* which the n-bit value v was written left-justified, big-endian, into one
\* 64-bit field returns v from ReadBits64(n), also when n is not a multiple
\* of 64.
C19_ValueReadBack ==
    (/\ brPc = "ready"
     /\ brSizeBits <= WordBits
     /\ brFrom = 0
     /\ brBitCount = brSizeBits)
        => brValue = ValueWritten(brWritten[1], brSizeBits)

\* C20: over whole fields every ReadBits64(n) returns the n bits of the
\* big-endian bit stream at the position it was called at, reads no field
\* beyond the declared size and advances the position by n; the position
\* never decreases and never exceeds sizeBits.
C20_ReadsFollowBitStream ==
    /\ []((brPc = "ready" /\ WholeFields) =>
            /\ brPosition <= brSizeBits
            /\ brBitCount > 0 =>
                  /\ brValue = StreamBits(brFrom, brBitCount)
                  /\ brPosition = brFrom + brBitCount
                  /\ brTouched \subseteq 0..((brSizeBits \div WordBits) - 1))
    /\ [][(brPc = "ready" /\ WholeFields) => brPosition' >= brPosition]_vars

\* Fields 0xAAAA..., 0xBBBB...: at position 64 ReadBits64(8) returned 0xBB.
C20_Witness ==
    /\ brPc = "ready"
    /\ brWritten = << FieldA, FieldB >>
    /\ brFrom = WordBits
    /\ brBitCount = 8
    /\ brPosition = WordBits + 8
    /\ brValue = { 0, 1, 3, 4, 5, 7 }

\* C21: ReadBits128(n), n in 1..128, called at position p with
\* p + n <= sizeBits returns the n bits of the bit stream that start at p as
\* a 128-bit value, also when the read spans three fields.
C21_Read128FollowsBitStream ==
    (brPc = "ready" /\ WholeFields /\ brBitCount > 0)
        => brValue = StreamBits(brFrom, brBitCount)

\* C22: executing WriteBuckets writes to stream i exactly w_i bytes of the
\* input taken at offset o_i: in direct mode w_i = floor( sizes[i] / B ) * B
\* and o_i = the sum over j < i of sizes[j] rounded up to B (no scratch block
\* is used), in buffered mode w_i = sizes[i] and o_i = the sum over j < i of
\* sizes[j]; an empty bucket issues no write and advances the offset by 0.
C22_WriteBucketsTakesStridedInput ==
    ioCmd.type = "WriteBuckets" =>
        LET sz   == ioCmd.sizes
            w(b) == IF useDirectIO THEN (sz[b + 1] \div BlockSize) * BlockSize
                    ELSE sz[b + 1]
            o(b) == BucketInputOffset(sz, b)
        IN  /\ iopc = "done" => \A b \in Buckets : Written(b) = BufBytes(o(b), w(b))
            /\ iopc = "bucket" =>
                   /\ bucketBuffer = o(bucket)
                   /\ \A b \in Buckets :
                          Written(b) = IF b < bucket THEN BufBytes(o(b), w(b))
                                       ELSE << >>
            /\ (iopc = "write" /\ wsize > 0) => w(wstream) > 0
            /\ iopc # "remainder"
            /\ blockBuffer = [ i \in 1..BlockSize |-> 0 ]

C22_Witness ==
    /\ iopc = "done"
    /\ ioCmd.type = "WriteBuckets"
    /\ useDirectIO
    /\ ioCmd.sizes = << BlockSize + 1, BlockSize, 0, BlockSize >>
    /\ Written(0) = BufBytes(0, BlockSize)
    /\ Written(1) = BufBytes(2 * BlockSize, BlockSize)
    /\ Written(2) = << >>
    /\ Written(3) = BufBytes(3 * BlockSize, BlockSize)

\* The table-pointer bytes of the header buffer.
TablePointerBytes ==
    [ i \in 1..TablePointersLen |-> plotHeaderBuffer[plotTablesPointers + i] ]

\* C23: on every OpenPlotFile call, a second or later one with a memo of
\* another length included, the 80 bytes at offset _plotTablesPointers of the
\* header handed to WriteFile are zero and the header fits in the buffer
\* allocated for it.
C23_TablePointersZeroAndHeaderFits ==
    headersBuilt > 0 =>
        /\ plotHeaderSize <= plotHeaderCap
        /\ TablePointerBytes = [ i \in 1..TablePointersLen |-> 0 ]

(***************************************************************************)
(* Claims about the paths handed to Open and remove.                       *)
(***************************************************************************)
\* C24: for every FileId, PLOT included, and bucket, the path DeleteFile /
\* DeleteBucket reconstructs and passes to remove is the path InitFileSet
\* opened that stream with.
C24_DeleteRemovesBackingFile ==
    \A r \in ptRemoves : r.formatted = r.backing

\* C29: in every interleaving of OpenPlotFile on a producer thread with the
\* dispatcher executing DeleteFile or DeleteBucket, each side opens or
\* removes exactly the path it formatted into the shared path buffer.
C29_EachSideUsesItsOwnPath ==
    /\ \A o \in ptOpens : o.passed = o.formatted
    /\ \A r \in ptRemoves : r.passed = r.formatted

(***************************************************************************)
(* Claims about the value of SignalFence.                                  *)
(***************************************************************************)
\* C25: for every uint32 v, values of 2^31 and more included,
\* SignalFence( fence, v ) makes the dispatcher call fence.Signal( v ) with
\* exactly v and never Signal(); SignalFence( fence ) makes it call Signal().
C25_SignalFenceKeepsValue ==
    /\ Len(fvSignals) + Len(fvCmds) = Len(fvCalls)
    /\ \A k \in 1..Len(fvSignals) :
         IF fvCalls[k].withValue
           THEN fvSignals[k] = [ call |-> "Signal(value)", value |-> fvCalls[k].value ]
           ELSE fvSignals[k].call = "Signal()"

C25_Witness ==
    /\ Len(fvSignals) >= 2
    /\ \E k \in 1..Len(fvSignals) :
         /\ fvCalls[k] = [ withValue |-> TRUE, value |-> { UInt32Bits - 1 } ]
         /\ fvSignals[k] = [ call |-> "Signal(value)", value |-> { UInt32Bits - 1 } ]
    /\ \E k \in 1..Len(fvSignals) :
         /\ ~fvCalls[k].withValue
         /\ fvSignals[k].call = "Signal()"

(***************************************************************************)
(* Claims about WaitForFence and ReleaseBuffer.                            *)
(***************************************************************************)
\* The dispatcher is inside ExecuteCommand for a WaitForFence command.
InWaitForFence == running # 0 /\ issued[running].type = "WaitForFence"

\* C26: once the dispatcher executes WaitForFence{ f }, it leaves the command
\* only when f was signaled by another thread, no command begins executing
\* while it is inside, and the command that begins next is the next one in
\* enqueue order; the producer can meanwhile fill the ring.
C26_WaitForFenceBlocksDispatcher ==
    [][ /\ (InWaitForFence /\ running' # running) => fenceSignaled
        /\ (started' # started) =>
              /\ running = 0
              /\ started' = Append(started, Len(started) + 1) ]_vars

C26_Witness ==
    /\ InWaitForFence
    /\ ~fenceSignaled
    /\ Len(ring) = RingCapacity
    /\ committedCount = RingCapacity
    /\ \A k \in 1..Len(ring) : ring[k] > running

\* C27: _workHeap.Release( b ) is called only while the dispatcher executes a
\* ReleaseBuffer{ b } command, hence after every command enqueued before it
\* finished; WriteFile, WriteBuckets and ReadFile release nothing.
C27_ReleaseOnlyByReleaseBuffer ==
    \A r \in 1..Len(rbReleases) :
        LET call == rbReleases[r] IN
            /\ rbCmds[call.during] = [ type |-> "ReleaseBuffer", buffer |-> call.buffer ]
            /\ call.finished = call.during - 1

C27_Witness ==
    /\ Len(rbReleases) = 1
    /\ rbDone = MaxCmds
    /\ rbReleases[1].during = MaxCmds
    /\ \A k \in 1..(MaxCmds - 1) :
         /\ rbCmds[k].type # "ReleaseBuffer"
         /\ rbCmds[k].buffer = rbReleases[1].buffer

(***************************************************************************)
(* Claim about the sizes array of WriteBuckets.                            *)
(***************************************************************************)
\* C28: the bucket sizes the dispatcher uses when it executes a WriteBuckets
\* command are the sizes the producer's array held when the command was
\* enqueued, whatever the producer stores in the array afterwards.
C28_SizesAreThoseAtEnqueue ==
    \A i \in 1..Len(szUsed) : szUsed[i] = szAtEnqueue[i - 1]

(***************************************************************************)
(* Claim about BitViewT.                                                   *)
(***************************************************************************)
\* C30: for 1 <= _EntrySize < 64 and indices in range, after Set( i, v ) the
\* call Get( i ) returns v mod 2^_EntrySize and Get( j ) returns, for every
\* j # i, what it returned before the Set, also when entry i lies in two words.
C30_SetChangesOnlyItsEntry ==
    bvSets > 0 =>
        /\ Get(bvFields, bvEntrySize, bvIndex) = bvValue \cap EntryBits(bvEntrySize)
        /\ \A j \in EntryIndices(bvFields, bvEntrySize) \ { bvIndex } :
             Get(bvFields, bvEntrySize, j) = Get(bvBefore, bvEntrySize, j)

=============================================================================
